---- MODULE Spec2Model ----
(***************************************************************************)
(* ai-vitals: one probe attempt of the monitoring orchestrator.            *)
(*                                                                         *)
(* Three ways into the code are modelled:                                  *)
(*   entry = "lib"    Monitor::new followed by Monitor::run (lib.rs)       *)
(*   entry = "bin"    the stand-alone binary, main (main.rs)               *)
(*   entry = "probe"  a probe built directly through Probe::new and        *)
(*                    probed, as the unit tests of lib.rs do               *)
(* An action is the code between two suspension points (.await) or an      *)
(* answer of the environment (a response, a transport failure, the exit of *)
(* the runner process).                                                    *)
(*                                                                         *)
(* Spec      one attempt through one of the three entries.                 *)
(* SpecFn    an exporter or a probe is constructed and one of its pure     *)
(*           methods is called (build_ping_url, get_monitor_update_payload,*)
(*           build_endpoint_url, build_payload, the arguments of the       *)
(*           runner's command); entry names the method.                    *)
(* SpecPair  two attempts of Monitor::run side by side, their              *)
(*           configurations differing in the alerting tunables only.       *)
(* SpecLive  one attempt of Monitor::run in which every awaited operation  *)
(*           ends (weak fairness of the answers).                          *)
(* SpecLoop  the continuous-mode variant: an outer loop around             *)
(*           Monitor::run, under fairness.                                 *)
(* SpecWeb   the dashboard: get_results on the persisted ping events.      *)
(***************************************************************************)
EXTENDS Integers, Sequences, FiniteSets, TLC

VARIABLES
    entry,      \* which entry point this execution uses
    config,     \* cli::Config (lib) / Args (bin), read-only after Init
    pid,        \* std::process::id() of this process
    clock,      \* Utc::now().timestamp(), wall-clock seconds
    other,      \* series id of one other exporter instance, once constructed
    exporter,   \* Option<Cronitor / CronitorClient>: <<>> or <<object>>
    probe,      \* Option<Box<dyn Probe>>: <<>> or <<object>>
    pc,         \* position in Monitor::run / main
    ping_pc,    \* position inside Export::ping: "idle", "get", "put"
    cur_ping,   \* the `state` argument of the ping in progress
    inflight,   \* outbound operations started and not yet completed
    log,        \* history: every outbound operation started or completed
    result,     \* Option<ProbeResult>
    exit_code,  \* Option<i32>: value returned by run / process exit code
    host,       \* what hostname::get() answers, "" when it fails
    profile,    \* how the build compiles integer overflow: "debug", "release"
    call,       \* the last call of a pure method: its name, arguments, value
    prev,       \* Option: the value of the derivation before the last one
    twin,       \* a second attempt, with a configuration of other tunables
    loop,       \* Option: the outer loop around Monitor::run, with the summary
                \* of the iteration before the current one
    table       \* the persisted ping events (monitoring_results) and the time

vars == <<entry, config, pid, clock, other, exporter, probe, pc, ping_pc,
          cur_ping, inflight, log, result, exit_code, host, profile, call,
          prev, twin, loop, table>>

(***************************************************************************)
(* Bounds of the model.                                                    *)
(***************************************************************************)
MaxClock == 1
MaxPid == 2
MaxMsgLen == 2
MaxNow == 3         \* the time of the persisted events runs from 0 to MaxNow

Pids == 1..MaxPid
Times == 0..MaxClock

(***************************************************************************)
(* Data.  Option<T> is a sequence of length 0 (None) or 1 (Some).          *)
(***************************************************************************)
NoneOpt == <<>>
Some(v) == <<v>>

ProbeTypes == {"openai-chat-completion", "openai-embedding", "newman"}
ArgTypes == {"chat", "embedding", "newman"}
ApiKeys == {NoneOpt, Some("key")}

\* HTTP statuses a probed server answers with, error texts of the transport,
\* exit codes of the runner process.
Statuses == {200, 204, 301, 500}
Descs == {"connection refused", "dns error"}
RunnerExits == {0, 1, 2}
\* How reading the body of a received response ends (resp.text().await).
BodyReads == {"read", "timeout", "error"}

(***************************************************************************)
(* u64 values are kept at their width: a sequence of U64Bits bits, most    *)
(* significant first.                                                      *)
(***************************************************************************)
U64Bits == 64

RECURSIVE Bits(_, _)
Bits(n, k) == IF k = 0 THEN <<>> ELSE Bits(n \div 2, k - 1) \o <<n % 2>>

\* the u64 with value n, and the u64 with value 2^63 + n
U64(n) == Bits(n, U64Bits)
U64High(n) == <<1>> \o Bits(n, U64Bits - 1)

\* timeout_seconds values: small ones, and ones with the top bit set
Timeouts == {U64(0), U64(1), U64(10), U64High(0), U64High(5)}

\* the u64 with value 2^k
U64Pow2(k) == [i \in 1..U64Bits |-> IF i = U64Bits - k THEN 1 ELSE 0]

\* timeout_seconds values for the runner: also the powers of two on both
\* sides of u64::MAX / 1000 (2^54 * 1000 < 2^64 <= 2^55 * 1000)
NewmanTimeouts == Timeouts \cup {U64Pow2(54), U64Pow2(55)}

\* request_delay_milliseconds values
Delays == {NoneOpt, Some(U64(250))}

\* environment_path values
EnvironmentPaths == {NoneOpt, Some("env.json")}

\* the value of the k-th group of 16 bits of a u64, the first being the
\* most significant
Limb(bits, k) ==
    LET v[i \in 0..16] == IF i = 0 THEN 0 ELSE (2 * v[i - 1]) + bits[(16 * (k - 1)) + i]
    IN v[16]

\* 1000 times a u64 as a natural number, in 80 bits: the multiplication by
\* groups of 16 bits from the least significant, each with the carry of the
\* one before
Times1000(bits) ==
    LET p[j \in 0..4] == IF j = 0 THEN 0
                         ELSE (Limb(bits, 5 - j) * 1000) + (p[j - 1] \div 65536)
        limb(k) == IF k = 1 THEN p[4] \div 65536 ELSE p[6 - k] % 65536
    IN SubSeq([i \in 1..80 |->
                  (limb(((i - 1) \div 16) + 1) \div (2^(15 - ((i - 1) % 16)))) % 2],
               1, 80)

\* alerting tunables, each Option<_>
FailureTolerances == {NoneOpt, Some(3)}
MissingTolerances == {NoneOpt, Some(2)}
MinSuccessFreqs == {NoneOpt, Some(60)}
RealertIntervals == {NoneOpt, Some(9999)}
Schedules == {NoneOpt, Some("*/5 * * * *")}
Groups == {NoneOpt, Some("llm")}

\* texts a user can configure
Envs == {"test", "production", "qa&message=down"}
ServerUrls == {"https://api.openai.com", "http://localhost:8000/v1"}

\* impl Default for Config
DefaultConfig ==
    [cronitor_base_url |-> "https://cronitor.link",
     cronitor_api_key |-> NoneOpt,
     monitor_name |-> "test-monitor",
     server_url |-> "https://api.openai.com",
     endpoint_type |-> "openai-chat-completion",
     model_name |-> "gpt-4",
     env |-> "test",
     timeout_seconds |-> U64(10),
     schedule |-> NoneOpt,
     realert_interval |-> Some(9999),
     consecutive_failures |-> Some(1),
     min_success_freq |-> Some(60),
     monitor_group |-> NoneOpt,
     consecutive_missing |-> Some(1),
     collection_path |-> "collection.json",
     environment_path |-> NoneOpt,
     request_delay_milliseconds |-> NoneOpt]

\* hostname::get().unwrap_or_default(): the host's name, or "" when get fails
Hosts == {"host-1", ""}

\* overflow checks of the build: on ("debug") or off ("release")
Profiles == {"debug", "release"}

\* What the transport reports for one request.
HttpOutcomes ==
    {[kind |-> "response", status |-> s, desc |-> b] : s \in Statuses, b \in BodyReads}
    \cup {[kind |-> "timeout", status |-> 0, desc |-> "operation timed out"]}
    \cup {[kind |-> "error", status |-> 0, desc |-> d] : d \in Descs}

\* What spawning and waiting for the runner process reports.
NewmanOutcomes ==
    {[kind |-> "exited", status |-> c, desc |-> ""] : c \in RunnerExits}
    \cup {[kind |-> k, status |-> 0, desc |-> ""] : k \in {"spawn_failed", "wait_failed"}}

\* What a ping GET or an upsert PUT ends with.
NotifyOutcomes ==
    {[kind |-> k, status |-> 0, desc |-> ""] :
        k \in {"success", "non_success", "transport_error"}}

\* enum ProbeResult
Success == [tag |-> "Success", code |-> 0, desc |-> ""]
Error(c) == [tag |-> "Error", code |-> c, desc |-> ""]
Timeout == [tag |-> "Timeout", code |-> 0, desc |-> ""]
NetworkError(d) == [tag |-> "NetworkError", code |-> 0, desc |-> d]

\* PingState::as_str
PingState_as_str(state) ==
    CASE state = "Run" -> "run"
      [] state = "Complete" -> "complete"
      [] state = "Fail" -> "fail"

\* StatusCode::is_success
is_success(status) == status >= 200 /\ status <= 299

(***************************************************************************)
(* Texts.  A string is the sequence of its characters; a character is a    *)
(* string of length 1.                                                     *)
(***************************************************************************)
CharAt(str, i) == SubSeq(str, i, i)

\* the characters urlencoding::encode leaves as they are: [A-Za-z0-9-_.~]
Unreserved ==
    {"a", "b", "c", "d", "e", "f", "g", "h", "i", "j", "k", "l", "m", "n", "o",
     "p", "q", "r", "s", "t", "u", "v", "w", "x", "y", "z",
     "A", "B", "C", "D", "E", "F", "G", "H", "I", "J", "K", "L", "M", "N", "O",
     "P", "Q", "R", "S", "T", "U", "V", "W", "X", "Y", "Z",
     "0", "1", "2", "3", "4", "5", "6", "7", "8", "9", "-", "_", ".", "~"}

\* the other characters of the texts of this model, with %XX of their byte
PctTable ==
    [c \in {" ", "!", "#", "%", "&", "*", "+", "/", ":", "=", "?"} |->
        CASE c = " " -> "%20" [] c = "!" -> "%21" [] c = "#" -> "%23"
          [] c = "%" -> "%25" [] c = "&" -> "%26" [] c = "*" -> "%2A"
          [] c = "+" -> "%2B" [] c = "/" -> "%2F" [] c = ":" -> "%3A"
          [] c = "=" -> "%3D" [] c = "?" -> "%3F"]

\* urlencoding::encode escaping only what is not a query delimiter or '%'
encode_reserved_only(str) ==
    LET out[i \in 0..Len(str)] ==
            IF i = 0 THEN ""
            ELSE out[i - 1] \o (IF CharAt(str, i) \in Unreserved \cup {"&", "%"}
                                THEN CharAt(str, i)
                                ELSE PctTable[CharAt(str, i)])
    IN out[Len(str)]

\* urlencoding::encode: the bytes of str in order, each left as it is or
\* replaced by %XX
encode(str) ==
    LET out[i \in 0..Len(str)] ==
            IF i = 0 THEN ""
            ELSE out[i - 1] \o (IF CharAt(str, i) \in Unreserved
                                THEN CharAt(str, i)
                                ELSE PctTable[CharAt(str, i)])
    IN out[Len(str)]

RECURSIVE decode(_)
\* percent-decoding, as the receiver of a URL does it: %XX is the character
\* with that byte, anything else stands for itself
decode(str) ==
    IF str = "" THEN ""
    ELSE IF Len(str) >= 3
            /\ \E c \in DOMAIN PctTable : PctTable[c] = SubSeq(str, 1, 3)
         THEN (CHOOSE c \in DOMAIN PctTable : PctTable[c] = SubSeq(str, 1, 3))
              \o decode(SubSeq(str, 4, Len(str)))
         ELSE CharAt(str, 1) \o decode(SubSeq(str, 2, Len(str)))

\* position of the first occurrence of character c in str, 0 when none
IndexOf(str, c) ==
    IF \E i \in 1..Len(str) : CharAt(str, i) = c
    THEN CHOOSE i \in 1..Len(str) :
            /\ CharAt(str, i) = c
            /\ \A j \in 1..(i - 1) : CharAt(str, j) # c
    ELSE 0

RECURSIVE Split(_, _)
\* the pieces of str between occurrences of character c
Split(str, c) ==
    LET i == IndexOf(str, c)
    IN IF i = 0 THEN <<str>>
       ELSE <<SubSeq(str, 1, i - 1)>> \o Split(SubSeq(str, i + 1, Len(str)), c)

\* the query parameters a receiver reads from a URL: what follows the first
\* '?' up to a '#', split at '&', each piece split at its first '=', the
\* value percent-decoded
QueryParams(url) ==
    LET q == IndexOf(url, "?")
        rest == IF q = 0 THEN "" ELSE SubSeq(url, q + 1, Len(url))
        h == IndexOf(rest, "#")
        query == IF h = 0 THEN rest ELSE SubSeq(rest, 1, h - 1)
        pieces == Split(query, "&")
        Pair(piece) ==
            LET e == IndexOf(piece, "=")
            IN IF e = 0 THEN [key |-> piece, value |-> ""]
               ELSE [key |-> SubSeq(piece, 1, e - 1),
                     value |-> decode(SubSeq(piece, e + 1, Len(piece)))]
    IN [i \in 1..Len(pieces) |-> Pair(pieces[i])]

(***************************************************************************)
(* History events.                                                         *)
(***************************************************************************)
Ev(req, ev, url, state, status_code, message, series, outcome) ==
    [req |-> req, ev |-> ev, url |-> url, state |-> state,
     status_code |-> status_code, message |-> message, series |-> series,
     outcome |-> outcome, body |-> NoneOpt]

NoOutcome == [kind |-> "", status |-> 0, desc |-> ""]
SendEv(req, url) == Ev(req, "send", url, "", 0, NoneOpt, "", NoOutcome)
DoneEv(req, o) == Ev(req, "done", "", "", 0, NoneOpt, "", o)
\* a request sent with a JSON body (.json(&value))
SendJson(req, url, value) == [SendEv(req, url) EXCEPT !.body = Some(value)]

(***************************************************************************)
(* Constructors.                                                           *)
(***************************************************************************)
\* format!("{}-{}", Utc::now().timestamp(), std::process::id())
SeriesId(ts, p) == ToString(ts) \o "-" \o ToString(p)

\* Export::new for Cronitor; buildOK: Client::builder().build() succeeded
Cronitor_new(cfg, ts, p, h, buildOK) ==
    IF ~buildOK THEN NoneOpt
    ELSE Some([config |-> cfg, host |-> h, series_id |-> SeriesId(ts, p)])

\* CronitorClient::new of the binary
CronitorClient_new(args, ts, p, h, buildOK) ==
    IF ~buildOK THEN NoneOpt
    ELSE Some([config |-> args, host |-> h, series_id |-> SeriesId(ts, p)])

\* Probe::new for OpenAI
OpenAI_new(cfg, buildOK) ==
    IF ~buildOK THEN NoneOpt
    ELSE Some([impl |-> "OpenAI", config |-> cfg])

\* Probe::new for Newman
Newman_new(cfg) == Some([impl |-> "Newman", config |-> cfg])

\* Monitor_new binding the endpoint probe whatever the kind
Monitor_new_endpoint_probe_always(cfg, ts, p, h, okExporter, okProbe) ==
    LET e == Cronitor_new(cfg, ts, p, h, okExporter)
        pr == OpenAI_new(cfg, okProbe)
    IN IF e = NoneOpt \/ pr = NoneOpt THEN NoneOpt
       ELSE Some([exporter |-> e[1], probe |-> pr[1]])

\* Monitor::new: the exporter first, then the probe chosen by endpoint_type
Monitor_new(cfg, ts, p, h, okExporter, okProbe) ==
    LET e == Cronitor_new(cfg, ts, p, h, okExporter)
        pr == IF cfg.endpoint_type \in {"openai-chat-completion", "openai-embedding"}
              THEN OpenAI_new(cfg, okProbe)
              ELSE Newman_new(cfg)
    IN IF e = NoneOpt \/ pr = NoneOpt THEN NoneOpt
       ELSE Some([exporter |-> e[1], probe |-> pr[1]])

\* impl From<&str> for EndpointType: NoneOpt stands for exit(2)
EndpointType_from(model_type) ==
    CASE model_type = "chat" -> Some("ChatCompletion")
      [] model_type = "embedding" -> Some("Embedding")
      [] OTHER -> NoneOpt

(***************************************************************************)
(* Probes.                                                                 *)
(***************************************************************************)
\* build_endpoint_url with the path put in place of the server's own path
build_endpoint_url_replaces_path(cfg) ==
    LET scheme == IndexOf(cfg.server_url, ":") + 2
        tail == SubSeq(cfg.server_url, scheme + 1, Len(cfg.server_url))
        slash == IndexOf(tail, "/")
        origin == IF slash = 0 THEN cfg.server_url
                  ELSE SubSeq(cfg.server_url, 1, scheme + slash - 1)
    IN CASE cfg.endpoint_type = "openai-chat-completion" ->
                Some(origin \o "/v1/chat/completions")
         [] cfg.endpoint_type = "openai-embedding" -> Some(origin \o "/v1/embeddings")
         [] OTHER -> NoneOpt

\* OpenAI::build_endpoint_url; NoneOpt stands for
\* panic!("Unsupported endpoint type")
build_endpoint_url(cfg) ==
    CASE cfg.endpoint_type = "openai-chat-completion" ->
            Some(cfg.server_url \o "/v1/chat/completions")
      [] cfg.endpoint_type = "openai-embedding" ->
            Some(cfg.server_url \o "/v1/embeddings")
      [] OTHER -> NoneOpt

\* OpenAI::build_payload; NoneOpt stands for panic!("Unsupported endpoint type")
build_payload(cfg) ==
    CASE cfg.endpoint_type = "openai-chat-completion" ->
            Some([model |-> cfg.model_name,
                  messages |-> <<[role |-> "user", content |-> "test"]>>,
                  max_tokens |-> 1,
                  priority |-> -100])
      [] cfg.endpoint_type = "openai-embedding" ->
            Some([model |-> cfg.model_name, input |-> "test", priority |-> -100])
      [] OTHER -> NoneOpt

\* OpenAI_classify without the `Err(e) if e.is_timeout()` arm
OpenAI_classify_no_timeout_arm(o) ==
    CASE o.kind = "response" ->
            IF is_success(o.status) THEN Success ELSE Error(o.status)
      [] OTHER -> NetworkError(o.desc)

\* OpenAI::probe, the match on the result of send(); the body is read with
\* unwrap_or_default, so how the read ends (o.desc of a response) is not used
OpenAI_classify(o) ==
    CASE o.kind = "response" ->
            IF is_success(o.status) THEN Success ELSE Error(o.status)
      [] o.kind = "timeout" -> Timeout
      [] OTHER -> NetworkError(o.desc)

\* Newman_classify with the runner's exit code passed on and a failed spawn
\* reported as a network error
Newman_classify_passes_code(o) ==
    CASE o.kind = "exited" -> IF o.status = 0 THEN Success ELSE Error(o.status)
      [] o.kind = "wait_failed" -> Error(1)
      [] OTHER -> NetworkError("spawning newman process")

\* Newman::probe, spawn and wait_with_output
Newman_classify(o) ==
    CASE o.kind = "exited" -> IF o.status = 0 THEN Success ELSE Error(1)
      [] o.kind = "wait_failed" -> Error(1)
      [] OTHER -> Error(1)

\* main: the patterns of the match on the result of send()
main_classify(o) ==
    CASE o.kind = "response" ->
            IF is_success(o.status) THEN Success ELSE Error(o.status)
      [] o.kind = "timeout" -> Timeout
      [] OTHER -> NetworkError(o.desc)

\* main: the endpoint chosen by args.endpoint_type
main_endpoint(args, endpoint_type) ==
    CASE endpoint_type = "ChatCompletion" -> args.server_url \o "/v1/chat/completions"
      [] endpoint_type = "Embedding" -> args.server_url \o "/v1/embeddings"

\* main: the payload chosen by args.endpoint_type
main_payload(args, endpoint_type) ==
    CASE endpoint_type = "ChatCompletion" ->
            [model |-> args.model_name,
             messages |-> <<[role |-> "user", content |-> "test"]>>,
             max_tokens |-> 1]
      [] endpoint_type = "Embedding" ->
            [model |-> args.model_name, input |-> "test"]

(***************************************************************************)
(* The mapping from the probe's result to the terminal ping and the exit   *)
(* code.                                                                   *)
(***************************************************************************)
Terminal(state, status_code, message, exit) ==
    [state |-> state, status_code |-> status_code, message |-> message,
     exit |-> exit]

\* run_terminal with the timeout arm returning the generic failure code
run_terminal_timeout_exit_1(r) ==
    CASE r.tag = "Success" -> Terminal("Complete", 0, NoneOpt, 0)
      [] r.tag = "Error" -> Terminal("Fail", r.code, NoneOpt, 1)
      [] r.tag = "Timeout" -> Terminal("Fail", 124, Some("Request timeout"), 1)
      [] r.tag = "NetworkError" ->
            Terminal("Fail", 1, Some("Network error: " \o r.desc), 1)

\* run_terminal with a message on the fail ping of an HTTP error too
run_terminal_error_message(r) ==
    CASE r.tag = "Success" -> Terminal("Complete", 0, NoneOpt, 0)
      [] r.tag = "Error" -> Terminal("Fail", r.code, Some("HTTP error"), 1)
      [] r.tag = "Timeout" -> Terminal("Fail", 124, Some("Request timeout"), 124)
      [] r.tag = "NetworkError" ->
            Terminal("Fail", 1, Some("Network error: " \o r.desc), 1)

\* Monitor::run, the arms of the match on probe().await
run_terminal(r) ==
    CASE r.tag = "Success" -> Terminal("Complete", 0, NoneOpt, 0)
      [] r.tag = "Error" -> Terminal("Fail", r.code, NoneOpt, 1)
      [] r.tag = "Timeout" -> Terminal("Fail", 124, Some("Request timeout"), 124)
      [] r.tag = "NetworkError" ->
            Terminal("Fail", 1, Some("Network error: " \o r.desc), 1)

\* main_terminal with the HTTP status of the response used as the exit code
main_terminal_exit_status(r) ==
    CASE r.tag = "Success" -> Terminal("Complete", 0, NoneOpt, 0)
      [] r.tag = "Error" -> Terminal("Fail", r.code, NoneOpt, r.code)
      [] r.tag = "Timeout" -> Terminal("Fail", 124, Some("Request timeout"), 124)
      [] r.tag = "NetworkError" ->
            Terminal("Fail", 1, Some("Reqwest error: " \o r.desc), 1)

\* main, the arms of the match on the result of send()
main_terminal(r) ==
    CASE r.tag = "Success" -> Terminal("Complete", 0, NoneOpt, 0)
      [] r.tag = "Error" -> Terminal("Fail", r.code, NoneOpt, 1)
      [] r.tag = "Timeout" -> Terminal("Fail", 124, Some("Request timeout"), 124)
      [] r.tag = "NetworkError" ->
            Terminal("Fail", 1, Some("Reqwest error: " \o r.desc), 1)

(***************************************************************************)
(* The part of the state one probe attempt changes, as a record, so that   *)
(* the code between two suspension points is a function on it.             *)
(***************************************************************************)
Cur ==
    [pc |-> pc, ping_pc |-> ping_pc, cur_ping |-> cur_ping,
     inflight |-> inflight, log |-> log, result |-> result,
     exit_code |-> exit_code]

\* the attempt state becomes s (s is evaluated once, as the value v)
Set(s) ==
    \E v \in {s} :
        /\ pc' = v.pc
        /\ ping_pc' = v.ping_pc
        /\ cur_ping' = v.cur_ping
        /\ inflight' = v.inflight
        /\ log' = v.log
        /\ result' = v.result
        /\ exit_code' = v.exit_code

\* Cronitor::build_ping_url / the URL built in CronitorClient::ping: the
\* text of the URL
format_ping_url(exp, state, status_code, message) ==
    LET url == exp.config.cronitor_base_url \o "/" \o exp.config.monitor_name
               \o "?state=" \o PingState_as_str(state)
               \o "&series=" \o exp.series_id
               \o "&status_code=" \o ToString(status_code)
               \o "&env=" \o exp.config.env
               \o "&host=" \o exp.host
    IN IF message # NoneOpt
       THEN url \o "&message=" \o encode(message[1])
       ELSE url

\* build_ping_url with the series derived again at the time of the ping
build_ping_url_fresh_series(exp, state, status_code, message) ==
    Ev("GET", "send",
       format_ping_url([exp EXCEPT !.series_id = SeriesId(clock, pid)],
                       state, status_code, message),
       PingState_as_str(state), status_code, message,
       SeriesId(clock, pid), NoOutcome)

\* the GET of a ping: the URL built by build_ping_url, with the arguments it
\* was built from
build_ping_url(exp, state, status_code, message) ==
    Ev("GET", "send", format_ping_url(exp, state, status_code, message),
       PingState_as_str(state), status_code, message,
       exp.series_id, NoOutcome)

(***************************************************************************)
(* The monitor-definition document.  A JSON object is a function from its  *)
(* keys to its values; a formatted text is kept as its format and the      *)
(* value formatted into it.                                                *)
(***************************************************************************)
\* serde_json::Map::new()
Map_new == [k \in {} |-> ""]

\* `if let Some(v) = option { map.insert(key, json!(v)) }`
InsertIfSome(map, key, option) ==
    IF option # NoneOpt THEN map @@ (key :> option[1]) ELSE map

\* u64 `* 2`, as the build compiles it: with overflow checks the overflowing
\* multiplication panics (NoneOpt), without them it wraps
Mul2(bits, prof) ==
    IF bits[1] = 1 /\ prof = "debug" THEN NoneOpt
    ELSE Some(Tail(bits) \o <<0>>)

\* schedule_tolerance inserted whenever consecutive_missing is set
schedule_tolerance_without_schedule(map, cfg) ==
    InsertIfSome(map, "schedule_tolerance", cfg.consecutive_missing)

\* `if let (Some(consecutive_missing), Some(_)) = (consecutive_missing, schedule)`
schedule_tolerance(map, cfg) ==
    IF cfg.consecutive_missing # NoneOpt /\ cfg.schedule # NoneOpt
    THEN map @@ ("schedule_tolerance" :> cfg.consecutive_missing[1])
    ELSE map

\* the optional fields with the re-alert interval always inserted, 0 when unset
optional_fields_realert_always(map, cfg) ==
    LET m1 == InsertIfSome(map, "failure_tolerance", cfg.consecutive_failures)
        m2 == InsertIfSome(m1, "schedule", cfg.schedule)
        m3 == m2 @@ ("realert_interval" :>
                        IF cfg.realert_interval # NoneOpt
                        THEN cfg.realert_interval[1] ELSE 0)
        m4 == schedule_tolerance(m3, cfg)
    IN InsertIfSome(m4, "group", cfg.monitor_group)

\* get_monitor_update_payload: the `if let` blocks in their order
optional_fields(map, cfg) ==
    LET m1 == InsertIfSome(map, "failure_tolerance", cfg.consecutive_failures)
        m2 == InsertIfSome(m1, "schedule", cfg.schedule)
        m3 == InsertIfSome(m2, "realert_interval", cfg.realert_interval)
        m4 == schedule_tolerance(m3, cfg)
    IN InsertIfSome(m4, "group", cfg.monitor_group)

\* get_monitor_update_payload: the assertions; NoneOpt when `* 2` panics
assertions(cfg, prof) ==
    LET bound == Mul2(cfg.timeout_seconds, prof)
    IN IF bound = NoneOpt THEN NoneOpt
       ELSE Some(<<[fmt |-> "metric.duration < {}s", arg |-> bound[1]]>>
                 \o IF cfg.min_success_freq # NoneOpt
                    THEN <<[fmt |-> "job.completes < {} minute",
                            arg |-> cfg.min_success_freq[1]]>>
                    ELSE <<>>)

\* get_monitor_update_payload with the series identifier as the monitor's key
get_monitor_update_payload_keyed_by_series(exp, prof) ==
    LET a == assertions(exp.config, prof)
        monitor == optional_fields(
                       (("type" :> "job") @@ ("key" :> exp.series_id)) @@ Map_new,
                       exp.config)
    IN IF a = NoneOpt THEN NoneOpt
       ELSE Some([monitors |-> <<monitor @@ ("assertions" :> a[1])>>])

\* Cronitor::get_monitor_update_payload(&self); NoneOpt when it panics
get_monitor_update_payload(exp, prof) ==
    LET a == assertions(exp.config, prof)
        monitor == optional_fields(
                       (("type" :> "job") @@ ("key" :> exp.config.monitor_name))
                           @@ Map_new,
                       exp.config)
    IN IF a = NoneOpt THEN NoneOpt
       ELSE Some([monitors |-> <<monitor @@ ("assertions" :> a[1])>>])

\* ping_send with the upsert sent together with the GET instead of after it
ping_send_concurrent_upsert(s, exp, state, status_code, message) ==
    [s EXCEPT !.log = IF state = "Run" /\ exp.config.cronitor_api_key # NoneOpt
                      THEN Append(Append(@, build_ping_url(exp, state, status_code, message)),
                                  SendEv("PUT", "https://cronitor.io/api/monitors"))
                      ELSE Append(@, build_ping_url(exp, state, status_code, message)),
              !.inflight = IF state = "Run" /\ exp.config.cronitor_api_key # NoneOpt
                           THEN @ \cup {"GET", "PUT"}
                           ELSE @ \cup {"GET"},
              !.ping_pc = "get",
              !.cur_ping = state]

\* Export::ping up to the first await: the GET is sent
ping_send(s, exp, state, status_code, message) ==
    [s EXCEPT !.log = Append(@, build_ping_url(exp, state, status_code, message)),
              !.inflight = @ \cup {"GET"},
              !.ping_pc = "get",
              !.cur_ping = state]

\* ShouldEnrich without the test of the ping state
ShouldEnrich_any_state(state, cfg) ==
    cfg.cronitor_api_key # NoneOpt

\* ShouldEnrich without the test of the API key
ShouldEnrich_without_key(state, cfg) ==
    state = "Run"

\* Cronitor::ping: `if state == PingState::Run` and `let Some(api_key) = ...`
ShouldEnrich(state, cfg) ==
    state = "Run" /\ cfg.cronitor_api_key # NoneOpt

\* Cronitor::ping, the upsert: the payload is derived and the PUT is sent; a
\* panic of the derivation ends the task
upsert_send(s, exp, prof) ==
    LET payload == get_monitor_update_payload(exp, prof)
    IN IF payload = NoneOpt
       THEN [s EXCEPT !.pc = "panicked", !.ping_pc = "panicked"]
       ELSE [s EXCEPT !.log = Append(@, SendJson("PUT", "https://cronitor.io/api/monitors",
                                                payload[1])),
                      !.inflight = @ \cup {"PUT"},
                      !.ping_pc = "put"]

\* Cronitor_ping_get_done with a GET that failed in the transport sent once
\* more
Cronitor_ping_get_done_resend(s, exp, prof, o) ==
    LET sent == s.log[Len(s.log)]
        s1 == [s EXCEPT !.log = Append(@, DoneEv("GET", o)),
                        !.inflight = @ \ {"GET"}]
        first == \A i \in 1..(Len(s.log) - 1) : s.log[i] # sent
    IN IF o.kind = "transport_error" /\ first
       THEN [s1 EXCEPT !.log = Append(@, sent), !.inflight = @ \cup {"GET"}]
       ELSE IF ShouldEnrich(s.cur_ping, exp.config)
       THEN upsert_send(s1, exp, prof)
       ELSE [s1 EXCEPT !.ping_pc = "idle"]

\* Cronitor_ping_get_done with a transport failure of the terminal ping taken
\* for a failure of the attempt
Cronitor_ping_get_done_fails_attempt(s, exp, prof, o) ==
    LET s1 == [s EXCEPT !.log = Append(@, DoneEv("GET", o)),
                        !.inflight = @ \ {"GET"},
                        !.result = IF o.kind = "transport_error" /\ @ # NoneOpt
                                   THEN Some(NetworkError("ping failed"))
                                   ELSE @]
    IN IF ShouldEnrich(s.cur_ping, exp.config)
       THEN upsert_send(s1, exp, prof)
       ELSE [s1 EXCEPT !.ping_pc = "idle"]

\* Cronitor::ping from the answer to the GET to the next await or the return:
\* every arm of the match only logs, then the upsert PUT is sent or not
Cronitor_ping_get_done(s, exp, prof, o) ==
    LET s1 == [s EXCEPT !.log = Append(@, DoneEv("GET", o)),
                        !.inflight = @ \ {"GET"}]
    IN IF ShouldEnrich(s.cur_ping, exp.config)
       THEN upsert_send(s1, exp, prof)
       ELSE [s1 EXCEPT !.ping_pc = "idle"]

\* Cronitor::ping from the answer to the PUT to the return: every arm logs
Cronitor_ping_put_done(s, o) ==
    [s EXCEPT !.log = Append(@, DoneEv("PUT", o)),
              !.inflight = @ \ {"PUT"},
              !.ping_pc = "idle"]

\* CronitorClient::ping of the binary from the answer to the GET: an error is
\* logged, there is no upsert
CronitorClient_ping_get_done(s, o) ==
    [s EXCEPT !.log = Append(@, DoneEv("GET", o)),
              !.inflight = @ \ {"GET"},
              !.ping_pc = "idle"]

\* `timeout_seconds * 1000` in u64: a product that does not fit panics where
\* overflow is checked and wraps where it is not
Mul1000(bits, prof) ==
    LET Checked(wide) ==
            IF (\E i \in 1..16 : wide[i] = 1) /\ prof = "debug" THEN NoneOpt
            ELSE Some(SubSeq(wide, 17, 80))
    IN CHOOSE r \in {Checked(wide) : wide \in {Times1000(bits)}} : TRUE

\* an argument of a command: a text (Command::arg(&str)), or the decimal
\* text of a u64 (u64::to_string), kept as the value it renders
StrArg(text) == [text |-> text, u64 |-> <<>>]
ToStringU64(bits) == [text |-> "", u64 |-> bits]

\* newman_args with --delay-request put before -e
newman_args_delay_first(cfg, prof) ==
    LET ms == Mul1000(cfg.timeout_seconds, prof)
    IN IF ms = NoneOpt THEN NoneOpt
       ELSE Some(<<StrArg("run"), StrArg(cfg.collection_path),
                   StrArg("--timeout-request"), ToStringU64(ms[1])>>
                 \o (IF cfg.request_delay_milliseconds # NoneOpt
                     THEN <<StrArg("--delay-request"),
                            ToStringU64(cfg.request_delay_milliseconds[1])>>
                     ELSE <<>>)
                 \o (IF cfg.environment_path # NoneOpt
                     THEN <<StrArg("-e"), StrArg(cfg.environment_path[1])>>
                     ELSE <<>>))

\* Newman::probe, the arguments of the `newman` command; no list when the
\* multiplication panics
newman_args(cfg, prof) ==
    LET ms == Mul1000(cfg.timeout_seconds, prof)
    IN IF ms = NoneOpt THEN NoneOpt
       ELSE Some(<<StrArg("run"), StrArg(cfg.collection_path),
                   StrArg("--timeout-request"), ToStringU64(ms[1])>>
                 \o (IF cfg.environment_path # NoneOpt
                     THEN <<StrArg("-e"), StrArg(cfg.environment_path[1])>>
                     ELSE <<>>)
                 \o (IF cfg.request_delay_milliseconds # NoneOpt
                     THEN <<StrArg("--delay-request"),
                            ToStringU64(cfg.request_delay_milliseconds[1])>>
                     ELSE <<>>))

\* Probe::probe up to its first await (OpenAI) or to the spawn (Newman)
probe_start(s, prb) ==
    IF prb.impl = "OpenAI"
    THEN LET u == build_endpoint_url(prb.config)
         IN IF u = NoneOpt
            THEN [s EXCEPT !.pc = "panicked"]
            ELSE [s EXCEPT !.log = Append(@, SendJson("POST", u[1],
                                                     build_payload(prb.config)[1])),
                           !.inflight = @ \cup {"POST"},
                           !.pc = "probing"]
    ELSE LET a == newman_args(prb.config, profile)
         IN IF a = NoneOpt
            THEN [s EXCEPT !.pc = "panicked"]
            ELSE [s EXCEPT !.log = Append(@, SendJson("newman", "", a[1])),
                           !.inflight = @ \cup {"newman"},
                           !.pc = "probing"]

\* the outbound operation a probe waits for
ProbeReq(e, prb) ==
    IF e = "bin" THEN "POST"
    ELSE IF prb[1].impl = "OpenAI" THEN "POST" ELSE "newman"

\* Probe::probe from the answer of the environment to its return value
probe_classify(prb, o) ==
    IF prb.impl = "OpenAI" THEN OpenAI_classify(o) ELSE Newman_classify(o)

\* Monitor::run from its entry to the first await: ping(Run, 0, None)
Monitor_run_start(s, exp) ==
    ping_send([s EXCEPT !.pc = "run_ping"], exp, "Run", 0, NoneOpt)

\* Monitor_run_probe_done with the NetworkError arm returning its exit code
\* without the fail ping
Monitor_run_probe_done_no_ping(s, exp, r) ==
    IF r.tag = "NetworkError"
    THEN [s EXCEPT !.result = Some(r), !.pc = "done", !.exit_code = Some(1)]
    ELSE LET t == run_terminal(r)
         IN ping_send([s EXCEPT !.result = Some(r), !.pc = "terminal_ping"],
                      exp, t.state, t.status_code, t.message)

\* Monitor_run_probe_done with the terminal ping handed to a task of its own:
\* run returns its exit code without awaiting the ping
Monitor_run_probe_done_detached(s, exp, r) ==
    LET t == run_terminal(r)
    IN [ping_send([s EXCEPT !.result = Some(r)], exp, t.state, t.status_code, t.message)
           EXCEPT !.pc = "done", !.exit_code = Some(t.exit)]

\* Monitor::run from the probe's result to the next await: the terminal ping
Monitor_run_probe_done(s, exp, r) ==
    LET t == run_terminal(r)
    IN ping_send([s EXCEPT !.result = Some(r), !.pc = "terminal_ping"],
                 exp, t.state, t.status_code, t.message)

\* Monitor_run_resume waiting on after the terminal ping has returned
Monitor_run_resume_never_returns(s, prb) ==
    IF s.pc = "run_ping"
    THEN probe_start(s, prb)
    ELSE s

\* Monitor_run_resume ending the process with the exit code of a failed
\* attempt (std::process::exit, as main does) in place of returning it
Monitor_run_resume_exits_on_failure(s, prb) ==
    IF s.pc = "run_ping"
    THEN probe_start(s, prb)
    ELSE [s EXCEPT !.pc = IF run_terminal(s.result[1]).exit = 0 THEN "done"
                          ELSE "exited",
                   !.exit_code = Some(run_terminal(s.result[1]).exit)]

\* Monitor::run after a ping has returned: the probe, or the exit code
Monitor_run_resume(s, prb) ==
    IF s.pc = "run_ping"
    THEN probe_start(s, prb)
    ELSE [s EXCEPT !.pc = "done",
                   !.exit_code = Some(run_terminal(s.result[1]).exit)]

\* main from the probe's result to the next await: the terminal ping
main_probe_done(s, exp, r) ==
    LET t == main_terminal(r)
    IN ping_send([s EXCEPT !.result = Some(r), !.pc = "terminal_ping"],
                 exp, t.state, t.status_code, t.message)

\* main after a ping has returned: the request is built and sent (the `?` on
\* the client's build returns Err from main: exit code 1), or exit(code)
main_resume(s, args, endpoint_type, buildOK) ==
    IF s.pc = "run_ping"
    THEN IF ~buildOK
         THEN [s EXCEPT !.pc = "done", !.exit_code = Some(1)]
         ELSE [s EXCEPT !.log = Append(@, SendJson("POST",
                                                     main_endpoint(args, endpoint_type),
                                                     main_payload(args, endpoint_type))),
                        !.inflight = @ \cup {"POST"},
                        !.pc = "probing"]
    ELSE [s EXCEPT !.pc = "done",
                   !.exit_code = Some(main_terminal(s.result[1]).exit)]

\* main from the start of the process to the first await
main_start(s, args, ts, p, h, buildOK) ==
    LET ty == EndpointType_from(args.endpoint_type)
        c == CronitorClient_new(args, ts, p, h, buildOK)
    IN IF ty = NoneOpt THEN [s EXCEPT !.pc = "done", !.exit_code = Some(2)]
       ELSE IF c = NoneOpt THEN [s EXCEPT !.pc = "done", !.exit_code = Some(1)]
       ELSE ping_send([s EXCEPT !.pc = "run_ping"], c[1], "Run", 0, NoneOpt)

(***************************************************************************)
(* Initial states and actions.                                             *)
(***************************************************************************)
\* the configurations with every combination of the alerting tunables
TunableConfigs(cfg) ==
    {[cfg EXCEPT !.consecutive_failures = cf, !.consecutive_missing = cm,
                 !.min_success_freq = ms, !.realert_interval = ri,
                 !.schedule = sc, !.monitor_group = g] :
        cf \in FailureTolerances, cm \in MissingTolerances,
        ms \in MinSuccessFreqs, ri \in RealertIntervals,
        sc \in Schedules, g \in Groups}

\* The configurations of each entry: "lib", "bin" and "probe" run an attempt;
\* the others construct an object and call one of its pure methods.
Configs(e) ==
    CASE e = "lib" ->
            {[DefaultConfig EXCEPT !.endpoint_type = t, !.cronitor_api_key = k] :
                t \in ProbeTypes, k \in ApiKeys}
      [] e = "bin" ->
            {[DefaultConfig EXCEPT !.endpoint_type = t, !.env = "production"] :
                t \in ArgTypes}
      [] e = "probe" ->
            {[DefaultConfig EXCEPT !.endpoint_type = t] : t \in ProbeTypes}
      [] e = "build_ping_url" ->
            {[DefaultConfig EXCEPT !.env = v] : v \in Envs}
      [] e = "get_monitor_update_payload" ->
            UNION {TunableConfigs([DefaultConfig EXCEPT !.timeout_seconds = t]) :
                     t \in Timeouts}
      [] e = "build_endpoint_url" ->
            {[DefaultConfig EXCEPT !.endpoint_type = t, !.server_url = u] :
                t \in ProbeTypes, u \in ServerUrls}
      [] e = "get_results" -> {DefaultConfig}
      [] e = "newman_args" ->
            {[DefaultConfig EXCEPT !.endpoint_type = "newman", !.timeout_seconds = t,
                                   !.environment_path = ep,
                                   !.request_delay_milliseconds = d] :
                t \in NewmanTimeouts, ep \in EnvironmentPaths, d \in Delays}

NoCall == [fn |-> "", args |-> <<>>, out |-> <<>>]

InitOf(entries) ==
    /\ entry \in entries
    /\ config \in Configs(entry)
    /\ host \in Hosts
    /\ profile \in Profiles
    /\ call = NoCall
    /\ prev = NoneOpt
    /\ pid \in Pids
    /\ clock = 0
    /\ other = NoneOpt
    /\ exporter = NoneOpt
    /\ probe = NoneOpt
    /\ pc = "start"
    /\ ping_pc = "idle"
    /\ cur_ping = ""
    /\ inflight = {}
    /\ log = <<>>
    /\ result = NoneOpt
    /\ exit_code = NoneOpt

\* no monitoring_results table: no row, time 0, nothing that writes to it
NoTable == [rows |-> <<>>, now |-> 0, writers |-> <<>>]

Init ==
    /\ InitOf({"lib", "bin", "probe"})
    /\ twin = NoneOpt
    /\ loop = NoneOpt
    /\ table = NoTable

\* A second of wall-clock time passes.
Tick ==
    /\ clock < MaxClock
    /\ clock' = clock + 1
    /\ UNCHANGED <<loop, table, host, profile, call, prev, twin, entry, config, pid, other, exporter, probe, pc, ping_pc,
                   cur_ping, inflight, log, result, exit_code>>

\* Another exporter instance is constructed, in this process (p = pid) or in
\* another one.
OtherNew(p) ==
    /\ other = NoneOpt
    /\ other' = Some(Cronitor_new(config, clock, p, host, TRUE)[1].series_id)
    /\ UNCHANGED <<loop, table, host, profile, call, prev, twin, entry, config, pid, clock, exporter, probe, pc, ping_pc,
                   cur_ping, inflight, log, result, exit_code>>

\* Monitor::new(config)
MonitorNew(okExporter, okProbe) ==
    /\ entry = "lib"
    /\ pc = "start"
    /\ LET m == Monitor_new(config, clock, pid, host, okExporter, okProbe)
       IN IF m = NoneOpt
          THEN /\ pc' = "construct_failed"
               /\ UNCHANGED <<exporter, probe>>
          ELSE /\ pc' = "ready"
               /\ exporter' = Some(m[1].exporter)
               /\ probe' = Some(m[1].probe)
    /\ UNCHANGED <<loop, table, host, profile, call, prev, twin, entry, config, pid, clock, other, ping_pc, cur_ping,
                   inflight, log, result, exit_code>>

\* Monitor::run is called: the Run ping's GET is sent.
MonitorRun ==
    /\ entry = "lib"
    /\ pc = "ready"
    /\ Set(Monitor_run_start(Cur, exporter[1]))
    /\ UNCHANGED <<loop, table, host, profile, call, prev, twin, entry, config, pid, clock, other, exporter, probe>>

\* The binary starts: arguments, CronitorClient::new, the Run ping's GET.
MainStart(buildOK) ==
    /\ entry = "bin"
    /\ pc = "start"
    /\ Set(main_start(Cur, config, clock, pid, host, buildOK))
    /\ exporter' = IF EndpointType_from(config.endpoint_type) = NoneOpt
                   THEN NoneOpt
                   ELSE CronitorClient_new(config, clock, pid, host, buildOK)
    /\ UNCHANGED <<loop, table, host, profile, call, prev, twin, entry, config, pid, clock, other, probe>>

\* A probe is constructed directly with Probe::new.
ProbeNew(impl, buildOK) ==
    /\ entry = "probe"
    /\ pc = "start"
    /\ probe' = IF impl = "OpenAI" THEN OpenAI_new(config, buildOK)
                ELSE Newman_new(config)
    /\ pc' = IF probe' = NoneOpt THEN "construct_failed" ELSE "ready"
    /\ UNCHANGED <<loop, table, host, profile, call, prev, twin, entry, config, pid, clock, other, exporter, ping_pc,
                   cur_ping, inflight, log, result, exit_code>>

\* probe() is called on a directly constructed probe.
ProbeCall ==
    /\ entry = "probe"
    /\ pc = "ready"
    /\ Set(probe_start(Cur, probe[1]))
    /\ UNCHANGED <<loop, table, host, profile, call, prev, twin, entry, config, pid, clock, other, exporter, probe>>

\* The ping's GET ends with outcome o; the caller goes on when ping returns.
PingGetDone(o, buildOK) ==
    /\ ping_pc = "get"
    /\ IF entry = "bin"
       THEN Set(main_resume(CronitorClient_ping_get_done(Cur, o), config,
                            EndpointType_from(config.endpoint_type)[1], buildOK))
       ELSE LET s1 == Cronitor_ping_get_done(Cur, exporter[1], profile, o)
            IN Set(IF s1.ping_pc = "idle"
                   THEN Monitor_run_resume(s1, probe[1])
                   ELSE s1)
    /\ UNCHANGED <<loop, table, host, profile, call, prev, twin, entry, config, pid, clock, other, exporter, probe>>

\* The upsert's PUT ends with outcome o; ping returns.
PingPutDone(o) ==
    /\ ping_pc = "put"
    /\ Set(Monitor_run_resume(Cronitor_ping_put_done(Cur, o), probe[1]))
    /\ UNCHANGED <<loop, table, host, profile, call, prev, twin, entry, config, pid, clock, other, exporter, probe>>

\* The probe's request or runner process ends with outcome o.
ProbeDone(o) ==
    /\ pc = "probing"
    /\ LET s1 == [Cur EXCEPT !.log = Append(@, DoneEv(ProbeReq(entry, probe), o)),
                             !.inflight = @ \ {ProbeReq(entry, probe)}]
       IN CASE entry = "lib" ->
                  /\ o \in (IF probe[1].impl = "OpenAI" THEN HttpOutcomes
                            ELSE NewmanOutcomes)
                  /\ Set(Monitor_run_probe_done(s1, exporter[1],
                                                probe_classify(probe[1], o)))
            [] entry = "bin" ->
                  /\ o \in HttpOutcomes
                  /\ Set(main_probe_done(s1, exporter[1], main_classify(o)))
            [] entry = "probe" ->
                  /\ o \in (IF probe[1].impl = "OpenAI" THEN HttpOutcomes
                            ELSE NewmanOutcomes)
                  /\ Set([s1 EXCEPT !.result = Some(probe_classify(probe[1], o)),
                                    !.pc = "done"])
    /\ UNCHANGED <<loop, table, host, profile, call, prev, twin, entry, config, pid, clock, other, exporter, probe>>

Next ==
    \/ Tick
    \/ \E p \in Pids : OtherNew(p)
    \/ \E a, b \in BOOLEAN : MonitorNew(a, b)
    \/ MonitorRun
    \/ \E b \in BOOLEAN : MainStart(b)
    \/ \E i \in {"OpenAI", "Newman"}, b \in BOOLEAN : ProbeNew(i, b)
    \/ ProbeCall
    \/ \E o \in NotifyOutcomes, b \in BOOLEAN : PingGetDone(o, b)
    \/ \E o \in NotifyOutcomes : PingPutDone(o)
    \/ \E o \in HttpOutcomes \cup NewmanOutcomes : ProbeDone(o)

Spec == Init /\ [][Next]_vars

(***************************************************************************)
(* The pure methods, called on an object as the unit tests call them.      *)
(***************************************************************************)
RECURSIVE Texts(_, _)
\* the texts of at most n characters of chars
Texts(chars, n) ==
    IF n = 0 THEN {""}
    ELSE LET shorter == Texts(chars, n - 1)
         IN shorter \cup {c \o t : c \in chars, t \in shorter}

\* characters of a message: delimiters of a query, the escape, an unreserved one
MsgChars == {"&", "=", "#", " ", "%", "2"}

\* Option<&str> messages: none, the ones of the tests and of Monitor::run,
\* texts that read as an escape or as a query, every short text
Messages ==
    {NoneOpt}
    \cup {Some(m) : m \in {"Test error", "Error: 500 & timeout!", "Request timeout"}}
    \cup {Some(m) : m \in {"%20", "%2520", "k=v&k2=v2#frag", "100% a+b/c?"}}
    \cup {Some(m) : m \in Texts(MsgChars, MaxMsgLen)}

\* (state, status_code) as the callers of ping pair them
PingArgs ==
    {[state |-> "Run", status_code |-> 0],
     [state |-> "Complete", status_code |-> 200],
     [state |-> "Fail", status_code |-> 500]}

InitFn ==
    /\ InitOf({"build_ping_url", "get_monitor_update_payload", "build_endpoint_url",
               "newman_args"})
    /\ twin = NoneOpt
    /\ loop = NoneOpt
    /\ table = NoTable

\* Cronitor::new(config), as often as the caller likes
CronitorNew ==
    /\ entry \in {"build_ping_url", "get_monitor_update_payload"}
    /\ exporter' = Cronitor_new(config, clock, pid, host, TRUE)
    /\ UNCHANGED <<loop, table, host, profile, call, prev, twin, entry, config, pid, clock, other,
                   probe, pc, ping_pc, cur_ping, inflight, log, result, exit_code>>

\* OpenAI::new(config)
OpenAINew ==
    /\ entry = "build_endpoint_url"
    /\ probe = NoneOpt
    /\ probe' = OpenAI_new(config, TRUE)
    /\ UNCHANGED <<loop, table, host, profile, call, prev, twin, entry, config, pid, clock, other,
                   exporter, pc, ping_pc, cur_ping, inflight, log, result, exit_code>>

\* exporter.build_ping_url(state, status_code, message)
CallBuildPingUrl(a, message) ==
    /\ entry = "build_ping_url"
    /\ exporter # NoneOpt
    /\ call = NoCall
    /\ call' = [fn |-> "build_ping_url",
                args |-> [self |-> exporter[1], state |-> a.state,
                          status_code |-> a.status_code, message |-> message],
                out |-> Some(format_ping_url(exporter[1], a.state, a.status_code,
                                             message))]
    /\ UNCHANGED <<loop, table, host, profile, prev, twin, entry, config, pid, clock, other, exporter,
                   probe, pc, ping_pc, cur_ping, inflight, log, result, exit_code>>

\* exporter.get_monitor_update_payload()
CallGetMonitorUpdatePayload ==
    /\ entry = "get_monitor_update_payload"
    /\ exporter # NoneOpt
    /\ call = NoCall
    /\ call' = [fn |-> "get_monitor_update_payload",
                args |-> [self |-> exporter[1]],
                out |-> get_monitor_update_payload(exporter[1], profile)]
    /\ UNCHANGED <<loop, table, host, profile, prev, twin, entry, config, pid, clock, other, exporter,
                   probe, pc, ping_pc, cur_ping, inflight, log, result, exit_code>>

\* probe.build_endpoint_url()
CallBuildEndpointUrl ==
    /\ entry = "build_endpoint_url"
    /\ probe # NoneOpt
    /\ call = NoCall
    /\ call' = [fn |-> "build_endpoint_url",
                args |-> [self |-> probe[1]],
                out |-> build_endpoint_url(probe[1].config)]
    /\ UNCHANGED <<loop, table, host, profile, prev, twin, entry, config, pid, clock, other, exporter,
                   probe, pc, ping_pc, cur_ping, inflight, log, result, exit_code>>

\* probe.build_payload()
CallBuildPayload ==
    /\ entry = "build_endpoint_url"
    /\ probe # NoneOpt
    /\ call = NoCall
    /\ call' = [fn |-> "build_payload",
                args |-> [self |-> probe[1]],
                out |-> build_payload(probe[1].config)]
    /\ UNCHANGED <<loop, table, host, profile, prev, twin, entry, config, pid, clock, other, exporter,
                   probe, pc, ping_pc, cur_ping, inflight, log, result, exit_code>>

\* Newman::new(config)
NewmanNew ==
    /\ entry = "newman_args"
    /\ probe = NoneOpt
    /\ probe' = Newman_new(config)
    /\ UNCHANGED <<loop, table, host, profile, call, prev, twin, entry, config, pid, clock, other,
                   exporter, pc, ping_pc, cur_ping, inflight, log, result, exit_code>>

\* probe() of the runner probe, up to the spawn: the command's arguments
CallNewmanArgs ==
    /\ entry = "newman_args"
    /\ probe # NoneOpt
    /\ call = NoCall
    /\ call' = [fn |-> "newman_args",
                args |-> [self |-> probe[1]],
                out |-> newman_args(probe[1].config, profile)]
    /\ UNCHANGED <<loop, table, host, profile, prev, twin, entry, config, pid, clock, other, exporter,
                   probe, pc, ping_pc, cur_ping, inflight, log, result, exit_code>>

\* The caller is done with the call; a derived document is kept to compare
\* the next derivation with, an endpoint URL to go with the payload.
Return ==
    /\ call # NoCall
    /\ call' = NoCall
    /\ prev' = IF call.fn \in {"get_monitor_update_payload", "build_endpoint_url"}
               THEN Some(call)
               ELSE prev
    /\ UNCHANGED <<loop, table, host, profile, twin, entry, config, pid, clock, other, exporter,
                   probe, pc, ping_pc, cur_ping, inflight, log, result, exit_code>>

NextFn ==
    \/ Tick
    \/ CronitorNew
    \/ OpenAINew
    \/ \E a \in PingArgs, m \in Messages : CallBuildPingUrl(a, m)
    \/ CallGetMonitorUpdatePayload
    \/ CallBuildEndpointUrl
    \/ CallBuildPayload
    \/ NewmanNew
    \/ CallNewmanArgs
    \/ Return

SpecFn == InitFn /\ [][NextFn]_vars

(***************************************************************************)
(* Two attempts side by side: Monitor::new and Monitor::run with the       *)
(* configuration `config` and with a configuration that differs from it in *)
(* the alerting tunables only, in the same process at the same time, the   *)
(* environment answering both alike.                                       *)
(***************************************************************************)
AttemptOf(cfg, exp, prb, s) ==
    [config |-> cfg, exporter |-> exp, probe |-> prb, st |-> s]

MainAttempt == AttemptOf(config, exporter, probe, Cur)

SetAttempt(a) ==
    /\ Set(a.st)
    /\ exporter' = a.exporter
    /\ probe' = a.probe

\* Monitor::new(config)
Attempt_new(a, ts, p, h, okExporter, okProbe) ==
    LET m == Monitor_new(a.config, ts, p, h, okExporter, okProbe)
    IN IF m = NoneOpt
       THEN [a EXCEPT !.st.pc = "construct_failed"]
       ELSE [a EXCEPT !.exporter = Some(m[1].exporter),
                      !.probe = Some(m[1].probe),
                      !.st.pc = "ready"]

\* Monitor::run to the first await
Attempt_run(a) ==
    [a EXCEPT !.st = Monitor_run_start(@, a.exporter[1])]

\* the ping's GET ends; Monitor::run goes on when ping returns
Attempt_get_done(a, prof, o) ==
    LET s1 == Cronitor_ping_get_done(a.st, a.exporter[1], prof, o)
    IN [a EXCEPT !.st = IF s1.ping_pc = "idle"
                        THEN Monitor_run_resume(s1, a.probe[1])
                        ELSE s1]

\* the upsert's PUT ends; ping returns
Attempt_put_done(a, o) ==
    [a EXCEPT !.st = Monitor_run_resume(Cronitor_ping_put_done(@, o), a.probe[1])]

\* the probe's request or runner process ends
Attempt_probe_done(a, o) ==
    LET req == ProbeReq("lib", a.probe)
        s1 == [a.st EXCEPT !.log = Append(@, DoneEv(req, o)),
                           !.inflight = @ \ {req}]
    IN [a EXCEPT !.st = Monitor_run_probe_done(s1, a.exporter[1],
                                               probe_classify(a.probe[1], o))]

\* one process on one host under one build: both attempts share them
InitPair ==
    /\ InitOf({"lib"})
    /\ pid = 1
    /\ host = "host-1"
    /\ profile = "release"
    /\ twin \in {Some(AttemptOf(c, NoneOpt, NoneOpt, Cur)) : c \in TunableConfigs(config)}
    /\ loop = NoneOpt
    /\ table = NoTable

PairNew(okExporter, okProbe) ==
    /\ pc = "start"
    /\ twin[1].st.pc = "start"
    /\ SetAttempt(Attempt_new(MainAttempt, clock, pid, host, okExporter, okProbe))
    /\ twin' = Some(Attempt_new(twin[1], clock, pid, host, okExporter, okProbe))
    /\ UNCHANGED <<loop, table, host, profile, call, prev, entry, config, pid, clock, other>>

PairRun ==
    /\ pc = "ready"
    /\ twin[1].st.pc = "ready"
    /\ SetAttempt(Attempt_run(MainAttempt))
    /\ twin' = Some(Attempt_run(twin[1]))
    /\ UNCHANGED <<loop, table, host, profile, call, prev, entry, config, pid, clock, other>>

PairGetDone(o) ==
    /\ ping_pc = "get"
    /\ twin[1].st.ping_pc = "get"
    /\ SetAttempt(Attempt_get_done(MainAttempt, profile, o))
    /\ twin' = Some(Attempt_get_done(twin[1], profile, o))
    /\ UNCHANGED <<loop, table, host, profile, call, prev, entry, config, pid, clock, other>>

PairPutDone(o) ==
    /\ ping_pc = "put"
    /\ twin[1].st.ping_pc = "put"
    /\ SetAttempt(Attempt_put_done(MainAttempt, o))
    /\ twin' = Some(Attempt_put_done(twin[1], o))
    /\ UNCHANGED <<loop, table, host, profile, call, prev, entry, config, pid, clock, other>>

PairProbeDone(o) ==
    /\ pc = "probing"
    /\ twin[1].st.pc = "probing"
    /\ o \in (IF probe[1].impl = "OpenAI" THEN HttpOutcomes ELSE NewmanOutcomes)
    /\ SetAttempt(Attempt_probe_done(MainAttempt, o))
    /\ twin' = Some(Attempt_probe_done(twin[1], o))
    /\ UNCHANGED <<loop, table, host, profile, call, prev, entry, config, pid, clock, other>>

NextPair ==
    \/ Tick
    \/ \E a, b \in BOOLEAN : PairNew(a, b)
    \/ PairRun
    \/ \E o \in NotifyOutcomes : PairGetDone(o)
    \/ \E o \in NotifyOutcomes : PairPutDone(o)
    \/ \E o \in HttpOutcomes \cup NewmanOutcomes : PairProbeDone(o)

SpecPair == InitPair /\ [][NextPair]_vars

(***************************************************************************)
(* SpecLive: one attempt of Monitor::run in which every awaited operation  *)
(* (the GET of a ping, the PUT of the upsert, the probe's request or       *)
(* runner process) ends: the HTTP clients carry the configured timeout and *)
(* the runner is waited for.                                               *)
(***************************************************************************)
InitLive ==
    /\ InitOf({"lib"})
    /\ twin = NoneOpt
    /\ loop = NoneOpt
    /\ table = NoTable

\* an awaited operation ends
Answer ==
    \/ \E o \in NotifyOutcomes, b \in BOOLEAN : PingGetDone(o, b)
    \/ \E o \in NotifyOutcomes : PingPutDone(o)
    \/ \E o \in HttpOutcomes \cup NewmanOutcomes : ProbeDone(o)

NextLive ==
    \/ Tick
    \/ \E a, b \in BOOLEAN : MonitorNew(a, b)
    \/ MonitorRun
    \/ Answer

SpecLive == InitLive /\ [][NextLive]_vars /\ WF_vars(Answer)

(***************************************************************************)
(* SpecLoop: the continuous-mode variant.  Monitor::new is called once at  *)
(* startup, then the outer loop calls Monitor::run, waits for the interval *)
(* and calls it again; interval 0 is the single-run mode, where the exit   *)
(* code of Monitor::run becomes the exit code of the process.  Every       *)
(* awaited operation ends (the HTTP clients carry the configured timeout), *)
(* which the fairness conditions state.                                    *)
(***************************************************************************)
\* the interval durations: 0 runs once
Intervals == {0, 1}

\* what the loop keeps of an iteration that has returned: the states of the
\* pings it emitted, the probe's result, the exit code, what was still in
\* flight at the return, and whether an answer to a ping or an upsert was
\* not a success
IterationOf(s) ==
    LET IsSent(e) == e.req = "GET" /\ e.ev = "send"
        IsAnswer(e) == e.ev = "done" /\ e.req \in {"GET", "PUT"}
        sent == SelectSeq(s.log, IsSent)
        answers == SelectSeq(s.log, IsAnswer)
    IN [pings |-> [i \in 1..Len(sent) |-> sent[i].state],
        result |-> s.result,
        exit_code |-> s.exit_code,
        inflight |-> s.inflight,
        undelivered |-> \E i \in 1..Len(answers) : answers[i].outcome.kind # "success"]

\* the outer loop when Monitor::run has returned: single-run mode exits with
\* the exit code, continuous mode keeps the process and starts the timing wait
loop_after_run(s, interval) ==
    IF interval = 0
    THEN [s EXCEPT !.pc = "exited"]
    ELSE [s EXCEPT !.pc = "waiting", !.log = <<>>, !.result = NoneOpt,
                   !.exit_code = NoneOpt, !.cur_ping = ""]

InitLoop ==
    /\ InitOf({"lib"})
    /\ pid = 1
    /\ host = "host-1"
    /\ twin = NoneOpt
    /\ loop \in {Some([interval |-> i, last |-> NoneOpt]) : i \in Intervals}
    /\ table = NoTable

\* Monitor::run has returned to the outer loop.
LoopAfterRun ==
    /\ loop # NoneOpt
    /\ pc = "done"
    /\ Set(loop_after_run(Cur, loop[1].interval))
    /\ loop' = IF loop[1].interval = 0 THEN loop
               ELSE Some([loop[1] EXCEPT !.last = Some(IterationOf(Cur))])
    /\ UNCHANGED <<table, host, profile, call, prev, twin, entry, config, pid, clock, other, exporter, probe>>

\* The timing wait of the outer loop ends: the next iteration may start.
LoopTimer ==
    /\ loop # NoneOpt
    /\ pc = "waiting"
    /\ pc' = "ready"
    /\ UNCHANGED <<loop, table, host, profile, call, prev, twin, entry, config, pid, clock, other, exporter, probe,
                   ping_pc, cur_ping, inflight, log, result, exit_code>>

NextLoop ==
    \/ \E a, b \in BOOLEAN : MonitorNew(a, b)
    \/ MonitorRun
    \/ \E o \in NotifyOutcomes, b \in BOOLEAN : PingGetDone(o, b)
    \/ \E o \in NotifyOutcomes : PingPutDone(o)
    \/ \E o \in HttpOutcomes \cup NewmanOutcomes : ProbeDone(o)
    \/ LoopAfterRun
    \/ LoopTimer

\* The process has a single thread of control and at most one action of it is
\* enabled at a time: weak fairness of the next step says that an awaited
\* operation ends, that the timer fires and that the loop goes on.
SpecLoop == InitLoop /\ [][NextLoop]_vars /\ WF_vars(NextLoop)

(***************************************************************************)
(* SpecWeb: the dashboard.  Two exporters, each of one probe attempt, have *)
(* their pings persisted as rows of monitoring_results; GET /api/results   *)
(* (get_results) reads the table.  The time of a row counts half           *)
(* milliseconds.                                                           *)
(***************************************************************************)
\* the monitor names of the second exporter: the one of the first, another
MonitorNames == {DefaultConfig.monitor_name, "other-monitor"}

\* an exporter whose pings are persisted: the series id Cronitor::new gave
\* it, its monitor name and the number of pings it has emitted
Writer(cfg, ts, p) ==
    [series_id |-> Cronitor_new(cfg, ts, p, "host-1", TRUE)[1].series_id,
     monitor_name |-> cfg.monitor_name,
     emitted |-> 0]

\* the ping states a writer may emit next: run, then complete or fail
NextStates(w) ==
    CASE w.emitted = 0 -> {"run"}
      [] w.emitted = 1 -> {"complete", "fail"}
      [] OTHER -> {}

\* one row of monitoring_results (the columns the query of get_results reads)
Row(id, timestamp, w, state) ==
    [id |-> id, timestamp |-> timestamp, monitor_name |-> w.monitor_name,
     state |-> state, series_id |-> w.series_id]

\* the ping event of writer i is appended to the table, or is lost (ok = FALSE)
persist(t, i, state, ok) ==
    [t EXCEPT !.writers[i].emitted = @ + 1,
              !.rows = IF ok
                       THEN Append(@, Row(Len(@) + 1, t.now, t.writers[i], state))
                       ELSE @]

\* struct ResultsQuery, as the query string of a request gives it
ResultsQueries ==
    [monitor_name : {NoneOpt} \cup {Some(n) : n \in MonitorNames},
     limit : {NoneOpt, Some(1)},
     offset : {NoneOpt, Some(1)}]

Min(a, b) == IF a <= b THEN a ELSE b

\* CAST(EXTRACT(EPOCH FROM interval) * 1000 AS BIGINT) of an interval of dt
\* half milliseconds: the nearest integer; a half is rounded away from zero
\* (numeric) or to the even neighbour (double precision), by the type
\* EXTRACT has in the server's version
cast_ms(dt) ==
    LET q == dt \div 2
    IN IF dt % 2 = 0 THEN {q}
       ELSE {IF dt > 0 THEN q + 1 ELSE q, IF q % 2 = 0 THEN q ELSE q + 1}

\* the sequences of the rows of P ordered by timestamp DESC: rows of equal
\* timestamp come in any order
OrderByTimestampDesc(P) ==
    {sq \in [1..Cardinality(P) -> P] :
        /\ \A i, j \in 1..Cardinality(P) : i # j => sq[i] # sq[j]
        /\ \A i, j \in 1..Cardinality(P) : i < j => sq[i].timestamp >= sq[j].timestamp}

\* get_results: the responses the query may give on these rows.
\* latest_events is one row per series id among the rows of the monitor asked
\* for, the one of the greatest timestamp (any of them when several have
\* it); run_event is the earliest row of state 'run' of that series id among
\* all rows, NULL when there is none; the page is cut from the rows ordered
\* by timestamp DESC
get_results(rows, params) ==
    LET limit == Min(IF params.limit = NoneOpt THEN 100 ELSE params.limit[1], 1000)
        offset == IF params.offset = NoneOpt THEN 0 ELSE params.offset[1]
        All == {rows[i] : i \in 1..Len(rows)}
        From == IF params.monitor_name = NoneOpt THEN All
                ELSE {r \in All : r.monitor_name = params.monitor_name[1]}
        Series == {r.series_id : r \in From}
        Latest(sid) == {r \in From : /\ r.series_id = sid
                                     /\ \A q \in From : q.series_id = sid =>
                                            q.timestamp <= r.timestamp}
        latest_events == {le \in [Series -> From] : \A sid \in Series : le[sid] \in Latest(sid)}
        Runs(sid) == {r \in All : r.series_id = sid /\ r.state = "run"}
        Durations(r) ==
            IF Runs(r.series_id) = {} THEN {NoneOpt}
            ELSE LET first == CHOOSE x \in Runs(r.series_id) :
                                 \A y \in Runs(r.series_id) : x.timestamp <= y.timestamp
                 IN {Some(d) : d \in cast_ms(r.timestamp - first.timestamp)}
        With(r, d) == [id |-> r.id, timestamp |-> r.timestamp,
                       monitor_name |-> r.monitor_name, state |-> r.state,
                       series_id |-> r.series_id, duration_ms |-> d]
        probe_durations ==
            UNION {{ {With(le[sid], d[sid]) : sid \in Series} :
                     d \in {f \in [Series -> UNION {Durations(le[sid]) : sid \in Series}] :
                              \A sid \in Series : f[sid] \in Durations(le[sid])} } :
                   le \in latest_events}
    IN UNION {{SubSeq(sq, offset + 1, Min(offset + limit, Len(sq))) :
                 sq \in OrderByTimestampDesc(P)} : P \in probe_durations}

InitWeb ==
    /\ InitOf({"get_results"})
    /\ pid = 1
    /\ host = "host-1"
    /\ profile = "release"
    /\ twin = NoneOpt
    /\ loop = NoneOpt
    /\ table \in {[NoTable EXCEPT !.writers =
                       <<Writer(config, 0, pid),
                         Writer([config EXCEPT !.monitor_name = n], ts, p)>>] :
                   n \in MonitorNames, ts \in Times, p \in Pids}

\* Half a millisecond passes.
Advance ==
    /\ call = NoCall
    /\ table.now < MaxNow
    /\ table' = [table EXCEPT !.now = @ + 1]
    /\ UNCHANGED <<loop, host, profile, call, prev, twin, entry, config, pid, clock, other, exporter,
                   probe, pc, ping_pc, cur_ping, inflight, log, result, exit_code>>

\* Writer i emits its next ping, which is persisted or lost.
Persist(i, state, ok) ==
    /\ call = NoCall
    /\ state \in NextStates(table.writers[i])
    /\ table' = persist(table, i, state, ok)
    /\ UNCHANGED <<loop, host, profile, call, prev, twin, entry, config, pid, clock, other, exporter,
                   probe, pc, ping_pc, cur_ping, inflight, log, result, exit_code>>

\* GET /api/results
GetResults(params) ==
    /\ call = NoCall
    /\ \E out \in get_results(table.rows, params) :
          call' = [fn |-> "get_results", args |-> params, out |-> out]
    /\ UNCHANGED <<loop, table, host, profile, prev, twin, entry, config, pid, clock, other, exporter,
                   probe, pc, ping_pc, cur_ping, inflight, log, result, exit_code>>

NextWeb ==
    \/ Advance
    \/ \E i \in 1..2, st \in {"run", "complete", "fail"}, ok \in BOOLEAN : Persist(i, st, ok)
    \/ \E params \in ResultsQueries : GetResults(params)
    \/ Return

SpecWeb == InitWeb /\ [][NextWeb]_vars

(***************************************************************************)
(* Views of the history used by the properties.                            *)
(***************************************************************************)
IsPing(e) == e.req = "GET" /\ e.ev = "send"
Pings == SelectSeq(log, IsPing)
IsTerminalState(st) == st \in {"complete", "fail"}
Contains(str, sub) ==
    \E i \in 1..(Len(str) - Len(sub) + 1) : SubSeq(str, i, i + Len(sub) - 1) = sub
Attempt == entry \in {"lib", "bin"}

(***************************************************************************)
(* C1: in a probe attempt (Monitor::run or main), whatever the variant of  *)
(* the probe's result, the Run ping is sent first and before the result is *)
(* known, exactly one terminal ping (complete or fail) follows it once the *)
(* result is known, and no ping is sent after the terminal ping.           *)
(***************************************************************************)
C1_RunThenOneTerminal ==
    Attempt =>
        /\ Len(Pings) <= 2
        /\ Len(Pings) >= 1 => Pings[1].state = "run"
        /\ Len(Pings) = 2 => IsTerminalState(Pings[2].state) /\ result # NoneOpt
        /\ result # NoneOpt => Len(Pings) = 2
        /\ (result # NoneOpt /\ pc = "done") =>
              /\ Len(Pings) = 2
              /\ result[1].tag \in {"Success", "Error", "Timeout", "NetworkError"}

C1_Witness ==
    /\ entry = "lib"
    /\ pc = "done"
    /\ result # NoneOpt
    /\ result[1].tag = "NetworkError"
    /\ Len(Pings) = 2
    /\ Pings[1].state = "run"
    /\ Pings[2].state = "fail"

(***************************************************************************)
(* C2: Monitor::run maps the probe's result to the terminal ping and the   *)
(* exit code as the table says: Success -> (complete, 0, no message, 0);   *)
(* Error(code) -> (fail, code, no message, 1); Timeout -> (fail, 124,      *)
(* "Request timeout", 124); NetworkError(d) -> (fail, 1,                   *)
(* "Network error: d", 1).                                                 *)
(***************************************************************************)
C2_Table(r, ping, exit) ==
    CASE r.tag = "Success" ->
            /\ ping.state = "complete" /\ ping.status_code = 0
            /\ ping.message = NoneOpt /\ exit = 0
      [] r.tag = "Error" ->
            /\ ping.state = "fail" /\ ping.status_code = r.code
            /\ ping.message = NoneOpt /\ exit = 1
      [] r.tag = "Timeout" ->
            /\ ping.state = "fail" /\ ping.status_code = 124
            /\ ping.message = <<"Request timeout">> /\ exit = 124
      [] r.tag = "NetworkError" ->
            /\ ping.state = "fail" /\ ping.status_code = 1
            /\ ping.message = <<"Network error: " \o r.desc>> /\ exit = 1
      [] OTHER -> FALSE

C2_RunMapping ==
    (entry = "lib" /\ pc = "done") =>
        /\ result # NoneOpt
        /\ exit_code # NoneOpt
        /\ Len(Pings) = 2
        /\ C2_Table(result[1], Pings[2], exit_code[1])

C2_Witness ==
    /\ entry = "lib"
    /\ pc = "done"
    /\ result = <<Timeout>>
    /\ exit_code = <<124>>
    /\ Pings[2].message = <<"Request timeout">>

(***************************************************************************)
(* C3: in every entry point that runs a probe attempt (Monitor::run and    *)
(* main), a transport failure that is not a timeout gives a fail ping with *)
(* status_code 1 and a message containing "Network error:", and exit       *)
(* code 1.                                                                 *)
(***************************************************************************)
C3_NetworkErrorEverywhere ==
    (Attempt /\ pc = "done" /\ result # NoneOpt /\ result[1].tag = "NetworkError") =>
        /\ Len(Pings) = 2
        /\ Pings[2].state = "fail"
        /\ Pings[2].status_code = 1
        /\ Pings[2].message # NoneOpt
        /\ Contains(Pings[2].message[1], "Network error:")
        /\ exit_code = <<1>>

(***************************************************************************)
(* C4: a failed notification never changes the outcome.  Whatever the ping *)
(* GETs and the upsert PUT end with, ping returns and Monitor::run goes    *)
(* on, and the classification, the terminal ping and the exit code are     *)
(* those the probe's own outcome gives.                                    *)
(***************************************************************************)
IsNotifyDone(e) == e.ev = "done" /\ e.req \in {"GET", "PUT"}
IsProbeDone(e) == e.ev = "done" /\ e.req \in {"POST", "newman"}
NotifyDone == SelectSeq(log, IsNotifyDone)
ProbeOutcome == SelectSeq(log, IsProbeDone)[1].outcome

C4_NotificationFailureHarmless ==
    entry = "lib" =>
        /\ (NotifyDone # <<>> /\ ping_pc = "idle") => pc \in {"probing", "done"}
        /\ pc = "done" =>
              LET r == probe_classify(probe[1], ProbeOutcome)
                  t == run_terminal(r)
              IN /\ result = <<r>>
                 /\ Len(Pings) = 2
                 /\ Pings[2].state = PingState_as_str(t.state)
                 /\ Pings[2].status_code = t.status_code
                 /\ Pings[2].message = t.message
                 /\ exit_code = <<t.exit>>

C4_Witness ==
    /\ entry = "lib"
    /\ pc = "done"
    /\ Len(NotifyDone) = 3
    /\ NotifyDone[1].outcome.kind = "transport_error"
    /\ NotifyDone[2].outcome.kind = "non_success"
    /\ NotifyDone[3].outcome.kind = "transport_error"
    /\ result = <<Success>>
    /\ exit_code = <<0>>

(***************************************************************************)
(* C5: the upsert PUT is sent if and only if the ping state is Run and an  *)
(* API key is configured: it follows the answer to the Run ping's GET      *)
(* whatever that answer is, and never follows a complete or fail ping.     *)
(***************************************************************************)
C5_UpsertIffRunAndKey ==
    \A i \in 1..Len(log) :
        /\ (log[i].req = "PUT" /\ log[i].ev = "send") =>
              /\ entry = "lib"
              /\ config.cronitor_api_key # NoneOpt
              /\ i >= 3
              /\ log[i-1].req = "GET" /\ log[i-1].ev = "done"
              /\ log[i-2].req = "GET" /\ log[i-2].ev = "send"
              /\ log[i-2].state = "run"
        /\ (/\ log[i].req = "GET" /\ log[i].ev = "done"
            /\ log[i-1].state = "run"
            /\ entry = "lib"
            /\ config.cronitor_api_key # NoneOpt) =>
              /\ i < Len(log)
              /\ log[i+1].req = "PUT" /\ log[i+1].ev = "send"

C5_Witness ==
    /\ entry = "lib"
    /\ config.cronitor_api_key # NoneOpt
    /\ pc = "done"
    /\ log[2].req = "GET" /\ log[2].outcome.kind = "transport_error"
    /\ log[3].req = "PUT" /\ log[3].ev = "send"
    /\ Cardinality({i \in 1..Len(log) : log[i].req = "PUT" /\ log[i].ev = "send"}) = 1

(***************************************************************************)
(* C6: at most one outbound operation is in flight at any time: sends and  *)
(* completions alternate, so the upsert starts only after the Run ping's   *)
(* GET has ended and the probe starts only after the ping and the upsert   *)
(* (when sent) have ended.                                                 *)
(***************************************************************************)
C6_OneInFlight ==
    /\ Cardinality(inflight) <= 1
    /\ inflight = IF Len(log) % 2 = 1 THEN {log[Len(log)].req} ELSE {}
    /\ \A i \in 1..Len(log) :
          IF i % 2 = 1 THEN log[i].ev = "send"
          ELSE log[i].ev = "done" /\ log[i].req = log[i-1].req

C6_Witness ==
    /\ entry = "lib"
    /\ pc = "probing"
    /\ Len(log) = 5
    /\ log[3].req = "PUT" /\ log[4].req = "PUT" /\ log[4].ev = "done"
    /\ log[5].req \in {"POST", "newman"}
    /\ Cardinality(inflight) = 1

(***************************************************************************)
(* C7: every ping of an attempt carries the series identifier the exporter *)
(* was constructed with; the Run ping and the terminal ping have equal     *)
(* series values.                                                          *)
(***************************************************************************)
C7_SameSeries ==
    Attempt =>
        /\ \A i \in 1..Len(Pings) :
              exporter # NoneOpt /\ Pings[i].series = exporter[1].series_id
        /\ Len(Pings) = 2 => Pings[1].series = Pings[2].series

C7_Witness ==
    /\ Attempt
    /\ Len(Pings) = 2
    /\ clock # 0
    /\ exporter[1].series_id = SeriesId(0, pid)
    /\ Pings[2].series = SeriesId(0, pid)

(***************************************************************************)
(* C8: two distinct exporter instances never carry the same series         *)
(* identifier.                                                             *)
(***************************************************************************)
C8_SeriesUnique ==
    (exporter # NoneOpt /\ other # NoneOpt) => other[1] # exporter[1].series_id

C9_ExitOf(r) ==
    CASE r.tag = "Success" -> 0
      [] r.tag = "Timeout" -> 124
      [] OTHER -> 1

C10_KindMismatchRejected ==
    (entry = "probe" /\ probe # NoneOpt) =>
        ((probe[1].impl = "OpenAI") <=>
            (config.endpoint_type \in {"openai-chat-completion", "openai-embedding"}))

(***************************************************************************)
(* C11: the endpoint probe classifies in this order: a timeout reported by *)
(* send() gives Timeout; any other failure of send() gives NetworkError    *)
(* with its description; a received response with a success status gives  *)
(* Success, however the read of its body ends; a received response with    *)
(* any other status gives Error with exactly that status.  So the code of  *)
(* an Error is never a success status and Success needs a received success *)
(* response.                                                               *)
(***************************************************************************)
C11_EndpointClassification ==
    (entry \in {"lib", "probe"} /\ result # NoneOpt /\ probe[1].impl = "OpenAI") =>
        LET o == ProbeOutcome
            r == result[1]
        IN /\ o.kind = "timeout" => r.tag = "Timeout"
           /\ o.kind = "error" => (r.tag = "NetworkError" /\ r.desc = o.desc)
           /\ (o.kind = "response" /\ o.status \in 200..299) => r.tag = "Success"
           /\ (o.kind = "response" /\ o.status \notin 200..299) =>
                 (r.tag = "Error" /\ r.code = o.status)
           /\ r.tag = "Error" => r.code \notin 200..299
           /\ r.tag = "Success" => (o.kind = "response" /\ o.status \in 200..299)

C11_Witness ==
    /\ entry = "probe"
    /\ probe # NoneOpt
    /\ probe[1].impl = "OpenAI"
    /\ result = <<Timeout>>
    /\ ProbeOutcome.kind = "timeout"

(***************************************************************************)
(* C12: the subprocess probe returns Success exactly when the runner was   *)
(* spawned, waited for and exited with code zero; a non-zero exit, a       *)
(* failed spawn and a failed wait each give Error(1); it never returns     *)
(* Timeout or NetworkError, and in Monitor::run a failed spawn or wait     *)
(* still ends with the fail ping.                                          *)
(***************************************************************************)
C12_SubprocessClassification ==
    (entry \in {"lib", "probe"} /\ result # NoneOpt /\ probe[1].impl = "Newman") =>
        LET o == ProbeOutcome
            r == result[1]
        IN /\ r.tag \in {"Success", "Error"}
           /\ r.tag = "Success" <=> (o.kind = "exited" /\ o.status = 0)
           /\ r.tag = "Error" => r.code = 1
           /\ (entry = "lib" /\ r.tag = "Error") =>
                 /\ pc \in {"terminal_ping", "done"}
                 /\ Len(Pings) = 2
                 /\ Pings[2].state = "fail"
                 /\ Pings[2].status_code = 1
                 /\ Pings[2].message = NoneOpt

C12_Witness ==
    /\ entry = "lib"
    /\ probe # NoneOpt
    /\ probe[1].impl = "Newman"
    /\ pc = "done"
    /\ ProbeOutcome.kind = "spawn_failed"
    /\ result = <<Error(1)>>
    /\ Pings[2].state = "fail"
    /\ exit_code = <<1>>

(***************************************************************************)
(* Views of a call of build_ping_url.                                      *)
(***************************************************************************)
IsPingUrlCall == call.fn = "build_ping_url"

\* the URL has a query parameter of this name with this value
HasParam(url, name, value) ==
    LET q == QueryParams(url)
    IN \E i \in 1..Len(q) : q[i].key = name /\ q[i].value = value

\* the URL has a query parameter of this name
HasParamNamed(url, name) ==
    LET q == QueryParams(url)
    IN \E i \in 1..Len(q) : q[i].key = name

(***************************************************************************)
(* C13.  A built ping URL always contains the query parameters state,      *)
(* series, status_code, env and host with the supplied values, state being *)
(* one of run, complete and fail, and it contains a message parameter if   *)
(* and only if a message was supplied.                                     *)
(***************************************************************************)
C13_PingUrlParameters ==
    IsPingUrlCall =>
        LET a == call.args
            url == call.out[1]
        IN /\ PingState_as_str(a.state) \in {"run", "complete", "fail"}
           /\ HasParam(url, "state", PingState_as_str(a.state))
           /\ HasParam(url, "series", a.self.series_id)
           /\ HasParam(url, "status_code", ToString(a.status_code))
           /\ HasParam(url, "env", a.self.config.env)
           /\ HasParam(url, "host", a.self.host)
           /\ HasParamNamed(url, "message") <=> (a.message # NoneOpt)

(***************************************************************************)
(* C14.  For every message the ping URL ends with "&message=" and the      *)
(* percent-encoded message: the encoded message contains none of '&', '=', *)
(* '#' and space, percent-decoding it recovers the message, and the last   *)
(* query parameter a receiver reads is message with the original text.     *)
(***************************************************************************)
C14_MessageEncodedLosslessly ==
    (IsPingUrlCall /\ call.args.message # NoneOpt) =>
        LET a == call.args
            url == call.out[1]
            msg == a.message[1]
            head == format_ping_url(a.self, a.state, a.status_code, NoneOpt)
                    \o "&message="
            encoded == SubSeq(url, Len(head) + 1, Len(url))
            q == QueryParams(url)
        IN /\ Len(url) >= Len(head)
           /\ SubSeq(url, 1, Len(head)) = head
           /\ \A i \in 1..Len(encoded) :
                 CharAt(encoded, i) \notin {"&", "=", "#", " "}
           /\ decode(encoded) = msg
           /\ q[Len(q)] = [key |-> "message", value |-> msg]

C14_Witness ==
    /\ IsPingUrlCall
    /\ call.args.message = Some("Error: 500 & timeout!")
    /\ call.args.self.config.env = "test"
    /\ HasParam(call.out[1], "message", "Error: 500 & timeout!")
    /\ Contains(call.out[1], "&message=Error%3A%20500%20%26%20timeout%21")

(***************************************************************************)
(* Views of a call of get_monitor_update_payload.                          *)
(***************************************************************************)
IsDerivation == call.fn = "get_monitor_update_payload"

\* the derivation returned a document
Derived == IsDerivation /\ call.out # NoneOpt

\* the one monitor object of the derived document
DerivedMonitor == call.out[1].monitors[1]

\* the configuration the document was derived from
DerivedFrom == call.args.self.config

\* the field is in the monitor object exactly when the option is set, and
\* then with the option's value
FieldIffSet(monitor, key, option) ==
    /\ key \in DOMAIN monitor <=> option # NoneOpt
    /\ key \in DOMAIN monitor => monitor[key] = option[1]

(***************************************************************************)
(* C15.  In a derived monitor-definition document the schedule_tolerance   *)
(* field is present if and only if both the missing-ping tolerance         *)
(* (consecutive_missing) and the schedule are set, and when present its    *)
(* value is the configured missing-ping tolerance.                         *)
(***************************************************************************)
C15_ScheduleToleranceCoupled ==
    Derived =>
        /\ Len(call.out[1].monitors) = 1
        /\ "schedule_tolerance" \in DOMAIN DerivedMonitor <=>
              (DerivedFrom.consecutive_missing # NoneOpt /\ DerivedFrom.schedule # NoneOpt)
        /\ "schedule_tolerance" \in DOMAIN DerivedMonitor =>
              DerivedMonitor["schedule_tolerance"] = DerivedFrom.consecutive_missing[1]

\* a document derived with the tolerance set and no schedule: no field
C15_Witness ==
    /\ Derived
    /\ DerivedFrom.consecutive_missing = Some(2)
    /\ DerivedFrom.schedule = NoneOpt
    /\ "schedule_tolerance" \notin DOMAIN DerivedMonitor
    /\ prev # NoneOpt

(***************************************************************************)
(* C16.  For every configured timeout the derivation returns a document    *)
(* whose first assertion is "metric.duration < {}s" with a bound that is   *)
(* exactly twice the timeout: the bound, extended by a leading zero bit,   *)
(* is the timeout shifted left by one bit.                                 *)
(***************************************************************************)
C16_DurationBoundTwiceTimeout ==
    IsDerivation =>
        /\ call.out # NoneOpt
        /\ LET a == DerivedMonitor["assertions"]
           IN /\ Len(a) >= 1
              /\ a[1].fmt = "metric.duration < {}s"
              /\ <<0>> \o a[1].arg = DerivedFrom.timeout_seconds \o <<0>>

(***************************************************************************)
(* C17.  In a derived monitor-definition document each optional field is   *)
(* present exactly when its tunable is set, with the tunable's value:      *)
(* failure_tolerance, schedule, realert_interval and group, and the        *)
(* assertion "job.completes < {} minute" with the minimum success          *)
(* frequency; type, key and the duration assertion are always there.       *)
(***************************************************************************)
C17_OptionalFieldsIffSet ==
    Derived =>
        LET m == DerivedMonitor
            cfg == DerivedFrom
            a == m["assertions"]
        IN /\ m["type"] = "job"
           /\ m["key"] = cfg.monitor_name
           /\ FieldIffSet(m, "failure_tolerance", cfg.consecutive_failures)
           /\ FieldIffSet(m, "schedule", cfg.schedule)
           /\ FieldIffSet(m, "realert_interval", cfg.realert_interval)
           /\ FieldIffSet(m, "group", cfg.monitor_group)
           /\ DOMAIN m \subseteq {"type", "key", "failure_tolerance", "schedule",
                                  "realert_interval", "schedule_tolerance", "group",
                                  "assertions"}
           /\ a[1].fmt = "metric.duration < {}s"
           /\ Len(a) = IF cfg.min_success_freq # NoneOpt THEN 2 ELSE 1
           /\ cfg.min_success_freq # NoneOpt =>
                 a[2] = [fmt |-> "job.completes < {} minute",
                         arg |-> cfg.min_success_freq[1]]

\* a document derived with the failure tolerance and the group set and the
\* re-alert interval, the schedule and the success frequency unset
C17_Witness ==
    /\ Derived
    /\ DerivedFrom.consecutive_failures = Some(3)
    /\ DerivedFrom.monitor_group = Some("llm")
    /\ DerivedFrom.realert_interval = NoneOpt
    /\ DerivedFrom.schedule = NoneOpt
    /\ DerivedFrom.min_success_freq = NoneOpt
    /\ DerivedMonitor["failure_tolerance"] = 3
    /\ DerivedMonitor["group"] = "llm"
    /\ "realert_interval" \notin DOMAIN DerivedMonitor
    /\ Len(DerivedMonitor["assertions"]) = 1

(***************************************************************************)
(* C18.  The derivation is deterministic and free of side effects: a step  *)
(* that derives the document leaves the configuration, the exporter (its   *)
(* series identifier and host included) and the history of requests as     *)
(* they were; the document is the one derived from the same configuration  *)
(* by an exporter with another series identifier and host; and it equals   *)
(* the document of the derivation before it whenever the two               *)
(* configurations are equal.                                               *)
(***************************************************************************)
C18_DerivationPure ==
    [][(call' # call /\ call'.fn = "get_monitor_update_payload") =>
          /\ config' = config
          /\ exporter' = exporter
          /\ call'.args.self = exporter[1]
          /\ <<log, inflight, pc, ping_pc, result>>' = <<log, inflight, pc, ping_pc, result>>
          /\ call'.out = get_monitor_update_payload(
                             [config |-> call'.args.self.config, host |-> "elsewhere",
                              series_id |-> "0-0"], profile)
          /\ (prev # NoneOpt /\ prev[1].args.self.config = call'.args.self.config) =>
                prev[1].out = call'.out]_vars

\* a second derivation by an exporter of another series, with the same
\* document
C18_Witness ==
    /\ Derived
    /\ prev # NoneOpt
    /\ prev[1].args.self.series_id # call.args.self.series_id
    /\ prev[1].args.self.config = DerivedFrom
    /\ prev[1].out = call.out
    /\ exporter = Some(call.args.self)

(***************************************************************************)
(* Views of two attempts side by side.                                     *)
(***************************************************************************)
IsRequest(e) == e.ev = "send"

\* the outbound requests of a history, in their order
Requests(history) == SelectSeq(history, IsRequest)

\* the second configuration differs from the first in alerting tunables only
DiffersInTunablesOnly(c1, c2) == c2 \in TunableConfigs(c1)

(***************************************************************************)
(* C19.  Alerting tunables have effect only when an API key is present:    *)
(* of two attempts whose configurations have no API key and differ only in *)
(* alerting tunables, answered alike by the environment (the same answers  *)
(* to the pings, the same probe outcome), each has sent the same sequence  *)
(* of outbound requests, URLs and bodies included, holds the same probe    *)
(* result and is at the same place with the same exit code.                *)
(***************************************************************************)
C19_TunablesInertWithoutKey ==
    (/\ twin # NoneOpt
     /\ config.cronitor_api_key = NoneOpt
     /\ twin[1].config.cronitor_api_key = NoneOpt
     /\ DiffersInTunablesOnly(config, twin[1].config)) =>
        /\ Requests(twin[1].st.log) = Requests(log)
        /\ twin[1].st.result = result
        /\ twin[1].st.exit_code = exit_code
        /\ twin[1].st.pc = pc
        /\ twin[1].st.ping_pc = ping_pc

\* two finished attempts after a probe timeout, their configurations
\* differing in each of the six tunables
C19_Witness ==
    /\ twin # NoneOpt
    /\ config.cronitor_api_key = NoneOpt
    /\ twin[1].config.consecutive_failures = NoneOpt
    /\ twin[1].config.consecutive_missing = Some(2)
    /\ twin[1].config.min_success_freq = NoneOpt
    /\ twin[1].config.realert_interval = NoneOpt
    /\ twin[1].config.schedule = Some("*/5 * * * *")
    /\ twin[1].config.monitor_group = Some("llm")
    /\ pc = "done"
    /\ twin[1].st.pc = "done"
    /\ Len(Requests(log)) = 3
    /\ Requests(twin[1].st.log) = Requests(log)
    /\ exit_code = Some(124)
    /\ twin[1].st.exit_code = Some(124)

(***************************************************************************)
(* C20.  For every server URL, build_endpoint_url of the chat-completion   *)
(* kind is the server URL followed by /v1/chat/completions and of the      *)
(* embedding kind the server URL followed by /v1/embeddings; build_payload *)
(* of the chat kind is {model, messages: one user message "test",          *)
(* max_tokens: 1, priority: -100} and of the embedding kind {model,        *)
(* input: "test", priority: -100}, with the configured model name.         *)
(***************************************************************************)
C20_EndpointUrlAndPayload ==
    LET cfg == call.args.self.config
        chat == cfg.endpoint_type = "openai-chat-completion"
        embedding == cfg.endpoint_type = "openai-embedding"
        url == call.out[1]
        payload == call.out[1]
        n == Len(cfg.server_url)
    IN /\ (call.fn = "build_endpoint_url" /\ (chat \/ embedding)) =>
             /\ call.out # NoneOpt
             /\ SubSeq(url, 1, n) = cfg.server_url
             /\ chat => SubSeq(url, n + 1, Len(url)) = "/v1/chat/completions"
             /\ embedding => SubSeq(url, n + 1, Len(url)) = "/v1/embeddings"
       /\ (call.fn = "build_payload" /\ (chat \/ embedding)) =>
             /\ call.out # NoneOpt
             /\ payload.model = cfg.model_name
             /\ payload.priority = -100
             /\ chat =>
                   /\ DOMAIN payload = {"model", "messages", "max_tokens", "priority"}
                   /\ payload.messages = <<[role |-> "user", content |-> "test"]>>
                   /\ payload.max_tokens = 1
             /\ embedding =>
                   /\ DOMAIN payload = {"model", "input", "priority"}
                   /\ payload.input = "test"

\* an embedding probe of a server URL that has a path of its own: the URL
\* was built, then the payload
C20_Witness ==
    /\ call.fn = "build_payload"
    /\ call.args.self.config.endpoint_type = "openai-embedding"
    /\ call.args.self.config.server_url = "http://localhost:8000/v1"
    /\ call.out = Some([model |-> "gpt-4", input |-> "test", priority |-> -100])
    /\ prev # NoneOpt
    /\ prev[1].fn = "build_endpoint_url"
    /\ prev[1].out = Some("http://localhost:8000/v1/v1/embeddings")

(***************************************************************************)
(* Views of the requests of one attempt.                                   *)
(***************************************************************************)
IsProbeSend(e) == e.ev = "send" /\ e.req \in {"POST", "newman"}

\* the invocations of the probe: its request sent or its process spawned
ProbeSends == SelectSeq(log, IsProbeSend)

\* the pings sent with this state
PingsOf(state) ==
    LET Is(e) == IsPing(e) /\ e.state = state
    IN SelectSeq(log, Is)

TerminalPings ==
    LET Is(e) == IsPing(e) /\ IsTerminalState(e.state)
    IN SelectSeq(log, Is)

(***************************************************************************)
(* C21.  No retries inside one call of Monitor::run: the probe is invoked  *)
(* at most once and exactly once when run has returned; the Run ping and   *)
(* the terminal ping are each sent at most once, and exactly once when run *)
(* has returned, whatever the answers to them were; and a failed probe has *)
(* a fail ping as its terminal ping and no second invocation.              *)
(***************************************************************************)
C21_NoRetries ==
    entry = "lib" =>
        /\ Len(ProbeSends) <= 1
        /\ Len(PingsOf("run")) <= 1
        /\ Len(TerminalPings) <= 1
        /\ pc \in {"probing", "terminal_ping", "done"} =>
              Len(ProbeSends) = 1 /\ Len(PingsOf("run")) = 1
        /\ pc = "done" =>
              /\ Len(TerminalPings) = 1
              /\ Len(NotifyDone) = Len(Requests(log)) - Len(ProbeSends)
        /\ (result # NoneOpt /\ result[1].tag # "Success") =>
              /\ Len(PingsOf("fail")) = 1
              /\ Len(PingsOf("complete")) = 0
              /\ Len(ProbeSends) = 1

\* an attempt that has returned after both pings failed in the transport and
\* the probe got an HTTP error
C21_Witness ==
    /\ entry = "lib"
    /\ pc = "done"
    /\ Len(NotifyDone) = 2
    /\ NotifyDone[1].outcome.kind = "transport_error"
    /\ NotifyDone[2].outcome.kind = "transport_error"
    /\ result = Some(Error(500))
    /\ Len(ProbeSends) = 1
    /\ Len(PingsOf("run")) = 1
    /\ Len(PingsOf("fail")) = 1

\* the outer loop runs in continuous mode
Continuous == loop # NoneOpt /\ loop[1].interval > 0

\* the iteration before the current one, if there is one
LastIteration == loop[1].last

\* an iteration whose probe did not succeed or whose pings or upsert were not
\* delivered
FailedIteration(it) ==
    \/ it.result # NoneOpt /\ it.result[1].tag # "Success"
    \/ it.undelivered

\* an iteration that has emitted its Run ping and its terminal ping, has
\* returned its exit code and has left nothing in flight
CompleteIteration(it) ==
    /\ Len(it.pings) = 2
    /\ it.pings[1] = "run"
    /\ IsTerminalState(it.pings[2])
    /\ it.result # NoneOpt
    /\ it.exit_code # NoneOpt
    /\ it.inflight = {}

RowsOf(sid) == {table.rows[i] : i \in {j \in 1..Len(table.rows) : table.rows[j].series_id = sid}}
RunRows(sid) == {r \in RowsOf(sid) : r.state = "run"}
TerminalRows(sid) == {r \in RowsOf(sid) : IsTerminalState(r.state)}
FirstRun(sid) ==
    CHOOSE x \in RunRows(sid) : \A y \in RunRows(sid) : x.timestamp <= y.timestamp
IsResults == call.fn = "get_results"

\* the response gives, for the series id of its row, the time from the
\* first Run event of the series to a terminal event of it, in milliseconds
DurationOfSeries(r) ==
    /\ r.duration_ms # NoneOpt
    /\ \E t \in TerminalRows(r.series_id) :
          r.duration_ms[1] \in cast_ms(t.timestamp - FirstRun(r.series_id).timestamp)

(***************************************************************************)
(* C24.  For the events persisted from the pings of the exporters, a       *)
(* response of get_results reports for every series id with a Run event    *)
(* and a terminal event the time of the terminal event minus the time of   *)
(* the first Run event of that series id (to the millisecond), and a       *)
(* response to a query without monitor name, limit and offset has one row  *)
(* for every series id of the table.                                       *)
(***************************************************************************)
C24_DurationTerminalMinusFirstRun ==
    IsResults =>
        /\ \A i \in 1..Len(call.out) :
              (RunRows(call.out[i].series_id) # {} /\ TerminalRows(call.out[i].series_id) # {})
                 => DurationOfSeries(call.out[i])
        /\ call.args = [monitor_name |-> NoneOpt, limit |-> NoneOpt, offset |-> NoneOpt] =>
              /\ {call.out[i].series_id : i \in 1..Len(call.out)}
                    = {table.rows[i].series_id : i \in 1..Len(table.rows)}
              /\ \A i, j \in 1..Len(call.out) :
                    call.out[i].series_id = call.out[j].series_id => i = j

\* the two exporters have different series ids
UniqueSeries == table.writers[1].series_id # table.writers[2].series_id

\* C24 for tables in which no two exporters share a series id
C24_HoldsWithUniqueSeries == UniqueSeries => C24_DurationTerminalMinusFirstRun

\* the arguments of the runner's command have been built
IsNewmanArgs == call.fn = "newman_args"
NewmanArgs == call.out[1]
NewmanConfig == call.args.self.config

C26_TimeoutMilliseconds ==
    IsNewmanArgs =>
        /\ call.out # NoneOpt
        /\ [i \in 1..16 |-> 0] \o NewmanArgs[4].u64 = Times1000(NewmanConfig.timeout_seconds)

\* C26 for the timeouts of at most 2^54 seconds
C26_HoldsBelowOverflow ==
    (/\ IsNewmanArgs
     /\ \A i \in 1..9 : NewmanConfig.timeout_seconds[i] = 0
     /\ \/ NewmanConfig.timeout_seconds[10] = 0
        \/ \A i \in 11..U64Bits : NewmanConfig.timeout_seconds[i] = 0) =>
        C26_TimeoutMilliseconds

\* the attempt is over: Monitor::run has returned, the process has exited,
\* or construction has failed
AttemptOver == pc \in {"done", "construct_failed"}

(***************************************************************************)
(* C27.  No Run ping is left without a terminal ping: when the attempt is  *)
(* over (the orchestrator has returned or the process has exited) and a    *)
(* Run ping was emitted, a terminal ping was emitted after it; and when    *)
(* the attempt ended without a probe result (a component could not be      *)
(* constructed, an argument was rejected) no ping was emitted at all.      *)
(***************************************************************************)
C27_RunPingHasTerminalPing ==
    (Attempt /\ AttemptOver) =>
        /\ Len(PingsOf("run")) >= 1 =>
              /\ Len(TerminalPings) = 1
              /\ IsTerminalState(Pings[Len(Pings)].state)
        /\ result = NoneOpt => Len(Pings) = 0

\* C27 for the orchestrator of the library (Monitor::new, Monitor::run)
C27_HoldsForMonitor == entry = "lib" => C27_RunPingHasTerminalPing

\* the probe kinds the endpoint probe serves
EndpointKinds == {"openai-chat-completion", "openai-embedding"}

(***************************************************************************)
(* C28.  An orchestrator built by Monitor::new holds the endpoint probe    *)
(* exactly when the configured kind is chat-completion or embedding and    *)
(* the runner probe exactly when it is newman; its endpoint probe always   *)
(* has a URL and a payload to build, and no run of it panics.              *)
(***************************************************************************)
C28_ProbeBoundByKind ==
    (entry = "lib" /\ probe # NoneOpt) =>
        /\ probe[1].impl = "OpenAI" <=> config.endpoint_type \in EndpointKinds
        /\ probe[1].impl = "Newman" <=> config.endpoint_type = "newman"
        /\ probe[1].config = config
        /\ probe[1].impl = "OpenAI" =>
              /\ build_endpoint_url(probe[1].config) # NoneOpt
              /\ build_payload(probe[1].config) # NoneOpt
        /\ pc # "panicked"

\* the runner of an orchestrator built for the kind newman is under way
C28_Witness ==
    /\ entry = "lib"
    /\ config.endpoint_type = "newman"
    /\ probe # NoneOpt
    /\ probe[1].impl = "Newman"
    /\ pc = "probing"
    /\ Len(ProbeSends) = 1

\* the ping was sent without a message: none was passed to ping and its URL
\* has no message parameter
NoMessage(e) == e.message = NoneOpt /\ ~Contains(e.url, "&message=")

\* the ping was sent with status_code 0
StatusZero(e) == e.status_code = 0 /\ Contains(e.url, "&status_code=0&")

(***************************************************************************)
(* C29.  In every probe attempt (Monitor::run or main) the Run ping and    *)
(* the Complete ping are sent with status_code 0 and without a message; a  *)
(* Fail ping is sent with a message exactly when the probe's result is     *)
(* Timeout or NetworkError; and when the attempt is over its exit code is  *)
(* 0 exactly when a Complete ping was sent as the terminal ping.           *)
(***************************************************************************)
C29_PingArgumentsAndExitCode ==
    Attempt =>
        /\ \A i \in 1..Len(Pings) :
              /\ Pings[i].state \in {"run", "complete"} =>
                    StatusZero(Pings[i]) /\ NoMessage(Pings[i])
              /\ Pings[i].state = "fail" =>
                    /\ result # NoneOpt
                    /\ ~NoMessage(Pings[i]) <=> result[1].tag \in {"Timeout", "NetworkError"}
                    /\ Pings[i].message # NoneOpt <=> Contains(Pings[i].url, "&message=")
        /\ (pc = "done" /\ exit_code # NoneOpt) =>
              (exit_code = Some(0) <=> Len(PingsOf("complete")) = 1)
        /\ Len(PingsOf("complete")) = 1 => (result = Some(Success) /\ Len(PingsOf("fail")) = 0)

\* an attempt of Monitor::run is over whose probe timed out: the fail ping
\* has a message, the exit code is 124
C29_Witness ==
    /\ entry = "lib"
    /\ pc = "done"
    /\ result = Some(Timeout)
    /\ Len(PingsOf("run")) = 1
    /\ Len(PingsOf("fail")) = 1
    /\ PingsOf("fail")[1].message = Some("Request timeout")
    /\ exit_code = Some(124)

\* Monitor::run has been called and has not returned
Running == pc \in {"run_ping", "probing", "terminal_ping"}

(***************************************************************************)
(* C30.  Every started attempt of Monitor::run terminates when every       *)
(* awaited operation ends: from its first ping on, run eventually has a    *)
(* probe result, has emitted the terminal ping and has returned its exit   *)
(* code; once the probe's result is known it never changes and run never   *)
(* goes back to the Run ping or the probe; once run has returned it stays  *)
(* returned.                                                               *)
(***************************************************************************)
C30_RunTerminates ==
    /\ (entry = "lib" /\ Running)
          ~> (/\ pc = "done"
              /\ result # NoneOpt
              /\ exit_code # NoneOpt
              /\ Len(TerminalPings) = 1
              /\ inflight = {})
    /\ [][result # NoneOpt => (result' = result /\ pc' \in {"terminal_ping", "done"})]_vars
    /\ [][pc = "done" => (pc' = "done" /\ exit_code' = exit_code /\ log' = log)]_vars

\* run has returned 0 after a successful probe, both pings answered
C30_Witness ==
    /\ entry = "lib"
    /\ pc = "done"
    /\ result = Some(Success)
    /\ exit_code = Some(0)
    /\ Len(TerminalPings) = 1
    /\ Len(NotifyDone) >= 2
    /\ inflight = {}

====
